---- MODULE Spec2Model ----
(***************************************************************************)
(* Model of the orchestration core of the AI image engine:                 *)
(*   - the ref-based bounded queue drainer of components/ResultsStep.tsx   *)
(*     (jobQueueRef, activeCountRef, isProcessingRef, drainQueue/tryNext,  *)
(*     addJobsToQueue, handleClearCompleted),                              *)
(*   - the per-job state machine processJob, cut at its await points.      *)
(*                                                                         *)
(* JavaScript runs one callback at a time.  An action of this model is one *)
(* such callback run to its end: an event handler, the synchronous part of *)
(* processJob up to its first await, a continuation after an await, the    *)
(* .finally reaction of a settled job, or a React effect.                  *)
(*                                                                         *)
(* setPosts(prev => ...) queues an updater; React applies the updaters in  *)
(* the order of the calls.  `posts` is the result of all updaters queued   *)
(* so far; `postsRef` is the value the effect of line 64 last stored.      *)
(***************************************************************************)
EXTENDS Integers, Sequences, FiniteSets, TLC

\* ------------------------------------------------------------------------
\* Program constant and bounds
\* ------------------------------------------------------------------------
MAX_CONCURRENT_JOBS == 3

\* Number of entities (posts) in the collection.
NumPosts == 4
\* Total number of jobs handed to addJobsToQueue in one run.
MaxJobs == 4
\* Number of handleClearCompleted calls in one run.
MaxClears == 1

PostIds == 1..NumPosts
JobIds == 1..MaxJobs

VARIABLES
    posts,                \* useState posts: post id -> WordPressPost
    postsRef,             \* postsRef.current: post id -> Snapshot of the post
    jobQueue,             \* jobQueueRef.current: sequence of job ids
    activeCount,          \* activeCountRef.current
    isProcessing,         \* isProcessingRef.current
    batchPostIds,         \* useState batchPostIds
    totalModalJobs,       \* useState totalModalJobs
    isProgressModalOpen,  \* useState isProgressModalOpen
    jobs,                 \* the Job objects created so far: job id -> Job
    exec,                 \* per job: position of its processJob execution
    started,              \* history: job ids in the order processJob was called
    trace,                \* history: per job, its publishes and remote calls
    clearCalls,           \* history: number of handleClearCompleted calls
    altSave,              \* the handleSaveAltText call in flight, if any
    retrier,              \* the retryableAIOperation call in flight, if any
    batcher,              \* the generateImageBriefsAndAltsBatch call in flight, if any
    pure,                 \* the call of a pure function of the AI service and its result
    placer,               \* the getContentWithImagePlaceholder call under way
    stateScheduler        \* the component variant that keeps its queue in React state

vars == <<posts, postsRef, jobQueue, activeCount, isProcessing, batchPostIds,
          totalModalJobs, isProgressModalOpen, jobs, exec, started, trace,
          clearCalls, altSave, retrier, batcher, pure, placer, stateScheduler>>

\* The whole program state as one record, so that a handler is a function
\* from state to state and handlers compose as the code's calls do.
Cur ==
    [posts |-> posts, postsRef |-> postsRef, jobQueue |-> jobQueue,
     activeCount |-> activeCount, isProcessing |-> isProcessing,
     batchPostIds |-> batchPostIds, totalModalJobs |-> totalModalJobs,
     isProgressModalOpen |-> isProgressModalOpen, jobs |-> jobs,
     exec |-> exec, started |-> started, trace |-> trace,
     clearCalls |-> clearCalls, altSave |-> altSave]

Becomes(s) ==
    \E next \in {s} :
        /\ posts' = next.posts
        /\ postsRef' = next.postsRef
        /\ jobQueue' = next.jobQueue
        /\ activeCount' = next.activeCount
        /\ isProcessing' = next.isProcessing
        /\ batchPostIds' = next.batchPostIds
        /\ totalModalJobs' = next.totalModalJobs
        /\ isProgressModalOpen' = next.isProgressModalOpen
        /\ jobs' = next.jobs
        /\ exec' = next.exec
        /\ started' = next.started
        /\ trace' = next.trace
        /\ clearCalls' = next.clearCalls
        /\ altSave' = next.altSave
        /\ UNCHANGED <<retrier, batcher, pure, placer, stateScheduler>>

\* ------------------------------------------------------------------------
\* Data
\* ------------------------------------------------------------------------
JobActions == {"generate", "insert", "insert_at", "set_featured", "upload_insert"}

\* generatedImage is optional; mediaId = 0 stands for "no generated image"
\* (the code's test !currentPost.generatedImage?.mediaId is true for both).
NoImage == [url |-> 0, mediaId |-> 0, alt |-> "", brief |-> ""]

InitialPost ==
    [status |-> "idle", statusMessage |-> "", imageCount |-> 0,
     content |-> <<>>, featured_media |-> 0, generatedImage |-> NoImage]

\* A payload is known by which of its fields are truthy; an absent payload
\* has none.
Payloads == [imageUrl : BOOLEAN, altText : BOOLEAN, imageDataUrl : BOOLEAN,
             prebuiltContent : BOOLEAN]
NoPayload == [imageUrl |-> FALSE, altText |-> FALSE, imageDataUrl |-> FALSE,
              prebuiltContent |-> FALSE]

NoJob == [post |-> 0, action |-> "none", payload |-> NoPayload]

\* Positions of a job: not created, in the pending sequence, suspended at the
\* await of a remote call (the call's name), settled (processJob's promise is
\* resolved, its .finally reaction not yet run), done, or discarded by clear.
RemoteCalls == {"generateImageBriefsAndAltsBatch", "generateImage",
                "uploadImage", "getContentWithImagePlaceholder", "updatePost"}
\* Of a post held in postsRef.current, and so of currentPost, the snapshot
\* processJob takes of its post, the fields that are ever read: imageCount,
\* content and generatedImage.  The other fields of the copy are never looked at.
Snapshot(p) ==
    [imageCount |-> p.imageCount, content |-> p.content,
     generatedImage |-> p.generatedImage]
NoExec == [pc |-> "new", currentPost |-> Snapshot(InitialPost), uploadedImage |-> 0]

Event(kind, what, shown) == [kind |-> kind, what |-> what, shown |-> shown]

\* The record of an error thrown inside processJob.
ThrowEvent(message) == [kind |-> "throw", what |-> message]

\* The record of an updatePostState call: the status it sets, the status the
\* post shows after it, and the update itself.
PublishEvent(updates, shown) ==
    [kind |-> "publish", what |-> updates.status, shown |-> shown,
     updates |-> updates]

\* ------------------------------------------------------------------------
\* updatePostState and the job processor
\* ------------------------------------------------------------------------
\* { ...p, ...updates }
Merge(p, updates) ==
    [f \in DOMAIN p |-> IF f \in DOMAIN updates THEN updates[f] ELSE p[f]]

\* Faulty variant: the update is merged into every post.
updatePostStateAll(s, postId, updates) ==
    [s EXCEPT !.posts = [p \in DOMAIN s.posts |-> Merge(s.posts[p], updates)]]

updatePostState(s, postId, updates) ==
    [s EXCEPT !.posts = [p \in DOMAIN s.posts |->
        IF p = postId THEN Merge(s.posts[p], updates) ELSE s.posts[p]]]

\* An updatePostState call of job j, with its record in the job's history.
Publish(s, j, updates) ==
    LET e == s.jobs[j].post
        t == updatePostState(s, e, updates)
    IN  [t EXCEPT !.trace[j] = Append(@, PublishEvent(updates, t.posts[e].status))]

\* `await call(...)`: the call is issued and the job is suspended on it.
Await(s, j, call) ==
    LET e == s.jobs[j].post
    IN  [s EXCEPT !.exec[j].pc = call,
                  !.trace[j] = Append(@, Event("call", call, s.posts[e].status))]

\* Faulty variant: the remote call is issued before the status is published.
StepCallFirst(s, j, status, message, call) ==
    Publish(Await(s, j, call), j, [status |-> status, statusMessage |-> message])

\* Faulty variant: the step counts the image before its call has ended.
StepOptimistic(s, j, status, message, call) ==
    Await(Publish(s, j, [status |-> status, statusMessage |-> message,
                         imageCount |-> s.exec[j].currentPost.imageCount + 1]), j, call)

\* A status transition followed by the remote call of that step.
Step(s, j, status, message, call) ==
    Await(Publish(s, j, [status |-> status, statusMessage |-> message]), j, call)

\* processJob returns: its promise is resolved.
Settle(s, j) == [s EXCEPT !.exec[j].pc = "settled"]

\* The catch block of processJob.
Catch(s, j, message) ==
    Settle(Publish(s, j, [status |-> "error", statusMessage |-> message]), j)

\* Faulty variant: the thrown error is swallowed and the job stays where it is.
ThrowSwallowed(s, j, message) ==
    [s EXCEPT !.trace[j] = Append(@, ThrowEvent(message))]

\* Faulty variant: a remote call is attempted before the error is raised.
ThrowAfterCall(s, j, message) ==
    Catch([Await(s, j, "updatePost") EXCEPT !.trace[j] =
              Append(@, ThrowEvent(message))], j, message)

\* An error with `message` is thrown inside the try block (by a throw
\* statement or by an awaited call that rejects): control goes to the catch.
Throw(s, j, message) ==
    Catch([s EXCEPT !.trace[j] = Append(@, ThrowEvent(message))], j, message)

\* The content written by an insertion: the snapshot's content with job j's
\* image put at the placeholder.
NewContent(s, j) == Append(s.exec[j].currentPost.content, j)

\* processJob(job) from its call to its first await (or to its end).  Every
\* job is made from a post of the collection and posts are never removed, so
\* the post is found (line 71 does not throw).
processJobStart(s, j) ==
    LET job == s.jobs[j]
        s1 == [s EXCEPT !.exec[j].currentPost = s.postsRef[job.post]]
        currentPost == s1.exec[j].currentPost
    IN  CASE job.action = "generate" ->
                Step(s1, j, "generating_brief", "Analyzing content...",
                     "generateImageBriefsAndAltsBatch")
          [] job.action = "insert" ->
                IF ~job.payload.imageUrl
                THEN Throw(s1, j, "No image URL for insertion.")
                ELSE Step(s1, j, "analyzing_placement", "AI finding best spot...",
                          "getContentWithImagePlaceholder")
          [] job.action = "insert_at" ->
                IF ~job.payload.prebuiltContent
                THEN Throw(s1, j, "No content provided for manual insertion.")
                ELSE Step(s1, j, "inserting", "Updating post...", "updatePost")
          [] job.action = "set_featured" ->
                IF currentPost.generatedImage.mediaId = 0
                THEN Throw(s1, j, "No generated image to set as featured.")
                ELSE Step(s1, j, "setting_featured", "Setting featured image...",
                          "updatePost")
          [] job.action = "upload_insert" ->
                IF ~job.payload.imageDataUrl \/ ~job.payload.altText
                THEN Throw(s1, j, "Image data and alt text required.")
                ELSE Step(s1, j, "uploading", "Uploading image...", "uploadImage")

\* The outcomes a suspended remote call can have.  generateImageBriefsAndAltsBatch
\* can also return an empty array; getContentWithImagePlaceholder catches the
\* failures of its AI call and returns the heuristic placement instead.
Outcomes(call) ==
    CASE call = "generateImageBriefsAndAltsBatch" -> {"ok", "empty", "throw"}
      [] call = "getContentWithImagePlaceholder" -> {"ok"}
      [] OTHER -> {"ok", "throw"}

\* The message of the error a failed remote call throws.
Cause(call) == "remote failure: " \o call

\* The upload's response: a new media id and its url, named after the job.
UploadedImage(j) == j

\* Faulty variant: the last update of generate sets the status alone.
GenerateSuccessNoImage(s, j) ==
    [status |-> "success", statusMessage |-> "Image generated!"]

\* The last update of a successful generate job.
GenerateSuccess(s, j) ==
    [status |-> "success", statusMessage |-> "Image generated!",
     generatedImage |-> [url |-> s.exec[j].uploadedImage,
                         mediaId |-> s.exec[j].uploadedImage,
                         alt |-> "briefData.altText", brief |-> "briefData.brief"]]

InsertSuccess(s, j) ==
    [status |-> "success", statusMessage |-> "Image inserted (auto)!",
     imageCount |-> s.exec[j].currentPost.imageCount + 1,
     content |-> NewContent(s, j)]

InsertAtSuccess(s, j) ==
    [status |-> "success", statusMessage |-> "Image inserted (manual)!",
     imageCount |-> s.exec[j].currentPost.imageCount + 1,
     content |-> <<j>>]

\* Faulty variant: the last update stores the featured image and leaves the
\* status of the step.
SetFeaturedSuccessNoStatus(s, j) ==
    [status |-> "setting_featured", statusMessage |-> "Setting featured image...",
     featured_media |-> s.exec[j].currentPost.generatedImage.mediaId]

SetFeaturedSuccess(s, j) ==
    [status |-> "success", statusMessage |-> "Featured image set!",
     featured_media |-> s.exec[j].currentPost.generatedImage.mediaId]

UploadInsertSuccess(s, j) ==
    [status |-> "success", statusMessage |-> "Image uploaded & inserted!",
     imageCount |-> s.exec[j].currentPost.imageCount + 1,
     content |-> NewContent(s, j),
     generatedImage |-> [url |-> s.exec[j].uploadedImage,
                         mediaId |-> s.exec[j].uploadedImage,
                         alt |-> "payload.altText", brief |-> ""]]

\* Faulty variant: the upload is started without its status being published.
GenerateUploadStepSilent(s, j) == Await(s, j, "uploadImage")

\* The third step of generate: the image is there and is uploaded.
GenerateUploadStep(s, j) ==
    Step(s, j, "uploading", "Uploading to WordPress...", "uploadImage")

\* processJob(job) from the await it is suspended on, the awaited call having
\* ended with `outcome`, to its next await (or to its end).
processJobResume(s, j, outcome) ==
    LET action == s.jobs[j].action
        pc == s.exec[j].pc
    IN  IF outcome = "throw" THEN Throw(s, j, Cause(pc))
        ELSE CASE action = "generate" /\ pc = "generateImageBriefsAndAltsBatch" ->
                    IF outcome = "empty"
                    THEN Throw(s, j, "Failed to generate image brief.")
                    ELSE Step(s, j, "generating_image", "Creating image...",
                              "generateImage")
               [] action = "generate" /\ pc = "generateImage" ->
                    GenerateUploadStep(s, j)
               [] action = "generate" /\ pc = "uploadImage" ->
                    LET s1 == [s EXCEPT !.exec[j].uploadedImage = UploadedImage(j)]
                    IN  Settle(Publish(s1, j, GenerateSuccess(s1, j)), j)
               [] action = "insert" /\ pc = "getContentWithImagePlaceholder" ->
                    Step(s, j, "inserting", "Updating post...", "updatePost")
               [] action = "insert" /\ pc = "updatePost" ->
                    Settle(Publish(s, j, InsertSuccess(s, j)), j)
               [] action = "insert_at" /\ pc = "updatePost" ->
                    Settle(Publish(s, j, InsertAtSuccess(s, j)), j)
               [] action = "set_featured" /\ pc = "updatePost" ->
                    Settle(Publish(s, j, SetFeaturedSuccess(s, j)), j)
               [] action = "upload_insert" /\ pc = "uploadImage" ->
                    Step([s EXCEPT !.exec[j].uploadedImage = UploadedImage(j)], j,
                         "analyzing_placement", "Finding best spot...",
                         "getContentWithImagePlaceholder")
               [] action = "upload_insert" /\ pc = "getContentWithImagePlaceholder" ->
                    Step(s, j, "inserting", "Updating post...", "updatePost")
               [] action = "upload_insert" /\ pc = "updatePost" ->
                    Settle(Publish(s, j, UploadInsertSuccess(s, j)), j)

\* ------------------------------------------------------------------------
\* The queue drainer
\* ------------------------------------------------------------------------
\* Faulty variant: the loop admits one job too many.
CanAdmitOffByOne(s) ==
    s.activeCount <= MAX_CONCURRENT_JOBS /\ Len(s.jobQueue) > 0

\* The condition of tryNext's while loop.
CanAdmit(s) ==
    s.activeCount < MAX_CONCURRENT_JOBS /\ Len(s.jobQueue) > 0

\* Faulty variant: pop() instead of shift(), the newest job first.
AdmitLast(s) ==
    LET j == s.jobQueue[Len(s.jobQueue)]
        s1 == [s EXCEPT !.jobQueue = SubSeq(@, 1, Len(@) - 1),
                        !.activeCount = @ + 1,
                        !.started = Append(@, j)]
    IN  processJobStart(s1, j)

\* Faulty variant: a job whose entity shows error is counted but not run.
AdmitUnlessError(s) ==
    LET j == Head(s.jobQueue)
        s1 == [s EXCEPT !.jobQueue = Tail(@),
                        !.activeCount = @ + 1,
                        !.started = Append(@, j)]
    IN  IF s.posts[s.jobs[j].post].status = "error" THEN Settle(s1, j)
        ELSE processJobStart(s1, j)

\* One turn of the loop: shift the head job, count it, call processJob.
Admit(s) ==
    LET j == Head(s.jobQueue)
        s1 == [s EXCEPT !.jobQueue = Tail(@),
                        !.activeCount = @ + 1,
                        !.started = Append(@, j)]
    IN  processJobStart(s1, j)

\* The test after the loop, which lowers the drain guard.
Idle(s) == s.activeCount = 0 /\ Len(s.jobQueue) = 0

RECURSIVE tryNext(_)
tryNext(s) ==
    IF CanAdmit(s) THEN tryNext(Admit(s))
    ELSE IF Idle(s) THEN [s EXCEPT !.isProcessing = FALSE]
    ELSE s

drainQueue(s) ==
    IF s.isProcessing THEN s
    ELSE tryNext([s EXCEPT !.isProcessing = TRUE])

\* The Job object of j and its execution are garbage: only the job's final
\* position is kept.
Forget(s, j, pc) ==
    [s EXCEPT !.exec[j] = [NoExec EXCEPT !.pc = pc],
              !.jobs[j] = NoJob,
              !.trace[j] = <<>>]

\* Faulty variant: the reaction does not call tryNext again.
OnFinallyNoRearm(s, j) ==
    Forget([s EXCEPT !.activeCount = @ - 1,
                     !.batchPostIds = @ \ {s.jobs[j].post}], j, "done")

\* The .finally reaction of job j's processJob promise.
OnFinally(s, j) ==
    tryNext(Forget([s EXCEPT !.activeCount = @ - 1,
                             !.batchPostIds = @ \ {s.jobs[j].post}], j, "done"))

\* jobQueueRef.current.push(...jobs): the new Job objects get the next ids.
Push(s, batch) ==
    LET base == Cardinality({j \in JobIds : s.exec[j].pc # "new"})
    IN  [s EXCEPT
           !.jobs = [j \in JobIds |->
                IF j > base /\ j <= base + Len(batch) THEN batch[j - base] ELSE @[j]],
           !.exec = [j \in JobIds |->
                IF j > base /\ j <= base + Len(batch)
                THEN [NoExec EXCEPT !.pc = "queued"] ELSE @[j]],
           !.jobQueue = @ \o [i \in 1..Len(batch) |-> base + i]]

addJobsToQueueOn(s, batch) ==
    IF Len(batch) = 0 THEN s
    ELSE LET s1 == [s EXCEPT
                      !.totalModalJobs = @ + Len(batch),
                      !.batchPostIds = @ \cup {batch[i].post : i \in 1..Len(batch)}]
             s2 == [Push(s1, batch) EXCEPT !.isProgressModalOpen = TRUE]
         IN  drainQueue(s2)

\* Faulty variant: clear also drops the executions that are running.
handleClearCancelsRunning(s) ==
    [s EXCEPT !.jobQueue = <<>>,
              !.activeCount = 0,
              !.isProcessing = FALSE,
              !.batchPostIds = {},
              !.totalModalJobs = 0,
              !.exec = [j \in JobIds |->
                    IF @[j].pc \in {"new", "done"} THEN @[j]
                    ELSE [NoExec EXCEPT !.pc = "discarded"]],
              !.jobs = [j \in JobIds |-> NoJob],
              !.trace = [j \in JobIds |-> <<>>],
              !.clearCalls = @ + 1]

handleClearCompletedOn(s) ==
    [s EXCEPT !.jobQueue = <<>>,
              !.activeCount = 0,
              !.isProcessing = FALSE,
              !.batchPostIds = {},
              !.totalModalJobs = 0,
              !.exec = [j \in JobIds |->
                    IF @[j].pc = "queued" THEN [NoExec EXCEPT !.pc = "discarded"]
                    ELSE @[j]],
              !.jobs = [j \in JobIds |->
                    IF s.exec[j].pc = "queued" THEN NoJob ELSE @[j]],
              !.clearCalls = @ + 1]

\* ------------------------------------------------------------------------
\* The bulk alt-text save
\* ------------------------------------------------------------------------
\* No handleSaveAltText call is in flight.
NoAltSave == [pc |-> "idle", mediaIds |-> {}]

HasImage(p) == p.generatedImage # NoImage

\* handleSaveAltText(updates) up to its await: the posts whose generated image
\* is among the updates show updating_meta, and one updateMediaAltText call per
\* update is issued.  `mediaIds` are the media ids of the updates.
handleSaveAltTextOn(s, mediaIds) ==
    LET postIdsToUpdate ==
            {p \in DOMAIN s.posts :
                HasImage(s.posts[p]) /\ s.posts[p].generatedImage.mediaId \in mediaIds}
    IN  [s EXCEPT
           !.posts = [p \in DOMAIN s.posts |->
                IF p \in postIdsToUpdate
                THEN Merge(@[p], [status |-> "updating_meta",
                                  statusMessage |-> "Saving alt text..."])
                ELSE @[p]],
           !.altSave = [pc |-> "saving", mediaIds |-> mediaIds]]

\* Faulty variant: the result of a save sets the status without its message.
SaveAltTextResultNoMessage(p, success) ==
    IF success
    THEN Merge(p, [status |-> "success",
                   generatedImage |-> [p.generatedImage EXCEPT !.alt = "result.altText"]])
    ELSE Merge(p, [status |-> "error"])

\* What the last updater of handleSaveAltText makes of a post whose media
\* id has a result.
SaveAltTextResult(p, success) ==
    IF success
    THEN Merge(p, [status |-> "success", statusMessage |-> "Alt text updated!",
                   generatedImage |-> [p.generatedImage EXCEPT !.alt = "result.altText"]])
    ELSE Merge(p, [status |-> "error",
                   statusMessage |-> "Failed to update alt text: " \o
                                     Cause("updateMediaAltText")])

\* Faulty variant: the calls are not caught one by one, so one failure
\* rejects Promise.all and no result is applied.
handleSaveAltTextDoneAllOrNothing(s, results) ==
    IF \E m \in DOMAIN results : ~results[m]
    THEN [s EXCEPT !.altSave = NoAltSave]
    ELSE [s EXCEPT
            !.posts = [p \in DOMAIN s.posts |->
                 IF ~HasImage(@[p]) THEN @[p]
                 ELSE IF @[p].generatedImage.mediaId \notin DOMAIN results THEN @[p]
                 ELSE SaveAltTextResult(@[p], TRUE)],
            !.altSave = NoAltSave]

\* handleSaveAltText after Promise.all: `results` tells for each media id
\* whether its updateMediaAltText call succeeded.
handleSaveAltTextDone(s, results) ==
    [s EXCEPT
       !.posts = [p \in DOMAIN s.posts |->
            IF ~HasImage(@[p]) THEN @[p]
            ELSE IF @[p].generatedImage.mediaId \notin DOMAIN results THEN @[p]
            ELSE SaveAltTextResult(@[p], results[@[p].generatedImage.mediaId])],
       !.altSave = NoAltSave]

\* ------------------------------------------------------------------------
\* retryableAIOperation (the AI service)
\* ------------------------------------------------------------------------
\* A thrown value: an Error or a FetchError (which has a status).  A message
\* is a sequence of words; message.includes(w) is true when w is one of them.
Error(message) == [fetchError |-> FALSE, status |-> 0, message |-> message]
FetchError(message, status) ==
    [fetchError |-> TRUE, status |-> status, message |-> message]
NoError == Error(<<>>)

Includes(message, word) == \E k \in 1..Len(message) : message[k] = word

\* The errors an apiCall throws: the FetchError of a response that is not ok
\* (status 429 or 500), the rate-limit error of the Gemini client, the
\* timeout of fetchWithTimeout, and an invalid response.
ApiErrors ==
    {FetchError(<<"API request failed with status", "429">>, 429),
     FetchError(<<"API request failed with status", "500">>, 500),
     Error(<<"RESOURCE_EXHAUSTED">>),
     Error(<<"Request timed out after", "90", "seconds.">>),
     Error(<<"AI provider returned an empty or invalid response.">>)}

isRateLimitError(error) ==
    \/ error.fetchError /\ error.status = 429
    \/ Includes(error.message, "429")
    \/ Includes(error.message, "RESOURCE_EXHAUSTED")

\* The outcome of one invocation of apiCall.
Fulfilled == [ok |-> TRUE, error |-> NoError]
Rejected(error) == [ok |-> FALSE, error |-> error]

\* No retryableAIOperation call is in flight.
NoRetry ==
    [pc |-> "idle", retries |-> 0, initialDelay |-> 0, i |-> 0,
     lastError |-> NoError, waitTime |-> 0, result |-> 0, thrown |-> NoError,
     invocations |-> 0, waited |-> 0, attempts |-> <<>>]

\* Faulty variant: the loop makes one turn more.
LoopGoesOnOnceMore(r) == r.i <= r.retries

\* The condition of the for loop.
LoopGoesOn(r) == r.i < r.retries

\* Faulty variant: the same delay before every retry.
WaitTimeConstant(initialDelay, i) == initialDelay

\* initialDelay * Math.pow(2, i)
WaitTime(initialDelay, i) == initialDelay * 2^i

\* The error thrown after the loop.
Exhausted(r) ==
    Error(<<"AI request failed after", ToString(r.retries),
            "attempts. Last error:">> \o r.lastError.message)

\* The top of a loop turn: apiCall() is invoked, or the loop is left.  The
\* invocations are counted, and the value an invocation returns is named
\* after its number.
RetryLoop(r) ==
    IF LoopGoesOn(r)
    THEN [r EXCEPT !.pc = "calling", !.invocations = @ + 1]
    ELSE [r EXCEPT !.pc = "thrown", !.thrown = Exhausted(r)]

\* retryableAIOperation(apiCall, retries, initialDelay) up to its first await.
retryableAIOperationOn(retries, initialDelay) ==
    RetryLoop([NoRetry EXCEPT !.retries = retries, !.initialDelay = initialDelay])

\* `return await apiCall()` with apiCall fulfilled.
RetryReturn(r) ==
    [r EXCEPT !.pc = "returned", !.result = r.invocations,
              !.attempts = Append(@, Fulfilled)]

\* Faulty variant: a failure that is not a rate limit is thrown wrapped.
RethrowWrapped(r, error) ==
    [r EXCEPT !.pc = "thrown",
              !.thrown = Exhausted([r EXCEPT !.lastError = error])]

\* throw error
Rethrow(r, error) == [r EXCEPT !.pc = "thrown", !.thrown = error]

\* The catch block: apiCall rejected with `error`.
RetryCatch(r, error) ==
    LET r1 == [r EXCEPT !.lastError = error, !.attempts = Append(@, Rejected(error))]
    IN  IF isRateLimitError(error)
        THEN [r1 EXCEPT !.pc = "waiting",
                        !.waitTime = WaitTime(r.initialDelay, r.i)]
        ELSE Rethrow(r1, error)

\* `await delay(waitTime)` is over: i++ and the next turn of the loop.
RetryAfterDelay(r) ==
    RetryLoop([r EXCEPT !.waited = @ + r.waitTime, !.waitTime = 0, !.i = @ + 1])

\* ------------------------------------------------------------------------
\* generateImageBriefsAndAltsBatch (the AI service)
\* ------------------------------------------------------------------------
BATCH_SIZE == 20

Min(a, b) == IF a < b THEN a ELSE b

\* array.slice(from, to), with 0-based bounds
Slice(array, from, to) == SubSeq(array, from + 1, Min(to, Len(array)))

\* No generateImageBriefsAndAltsBatch call is in flight.  chunks, events,
\* progress and responses are the record of what happened in the call: the
\* batches handed to the per-batch operation, the operations and inter-batch
\* delays in their order, the onProgress calls, and the kinds of the
\* responses received.
NoBatch ==
    [pc |-> "idle", posts |-> <<>>, i |-> 0, allResults |-> <<>>,
     returned |-> <<>>, thrown |-> NoError,
     chunks |-> <<>>, events |-> <<>>, progress |-> <<>>, responses |-> <<>>]

\* The call and the retrier it uses, as one value.
Pair(b, r) == [batcher |-> b, retrier |-> r]

\* Faulty variant: the loop advances by one post instead of one batch.
NextIndexByOne(i) == i + 1

\* i += BATCH_SIZE
NextIndex(i) == i + BATCH_SIZE

\* The top of a loop turn: the next batch is sliced and handed to the
\* retrier (default retries and initial delay), or the loop is left and
\* allResults is returned.
BatchLoop(b) ==
    IF b.i < Len(b.posts)
    THEN Pair([b EXCEPT !.pc = "calling",
                        !.chunks = Append(@, Slice(b.posts, b.i, b.i + BATCH_SIZE)),
                        !.events = Append(@, "operation")],
              retryableAIOperationOn(3, 2000))
    ELSE Pair([b EXCEPT !.pc = "returned", !.returned = b.allResults], NoRetry)

\* generateImageBriefsAndAltsBatch(posts, analysisConfig, onProgress) up to
\* its first await.
generateImageBriefsAndAltsBatchOn(items) ==
    BatchLoop([NoBatch EXCEPT !.posts = items,
                              !.progress = <<<<0, Len(items)>>>>])

\* Faulty variant: the failure of a batch is logged and the loop goes on.
BatchCatchGoesOn(b, error) ==
    BatchLoop([b EXCEPT !.i = NextIndex(@)])

\* The catch block of the loop body: `error` is thrown out of the call (a
\* SyntaxError as a new Error).
BatchCatch(b, error) ==
    Pair([b EXCEPT !.pc = "thrown", !.thrown = error], NoRetry)

\* Faulty variant: the delay is awaited after every batch.
MoreBatchesAlways(b) == TRUE

\* i + BATCH_SIZE < posts.length
MoreBatches(b) == b.i + BATCH_SIZE < Len(b.posts)

\* The kinds of response text the retrier can return: text with a JSON array
\* of results, text without JSON (extractJson gives null), and text whose
\* JSON does not parse.
ResponseKinds == {"json", "no json", "malformed json"}

\* The try block after `await retryableAIOperation(...)` returned a response
\* of kind `kind`, and the end of the loop body.  The results of a batch are
\* named after its posts.
BatchResponse(b0, kind) ==
    LET b == [b0 EXCEPT !.responses = Append(@, kind)]
    IN
    CASE kind = "no json" ->
            BatchCatch(b, Error(<<"The AI provider returned a response that did not contain valid JSON.">>))
      [] kind = "malformed json" ->
            BatchCatch(b, Error(<<"The AI provider returned malformed JSON, even after cleanup.">>))
      [] kind = "json" ->
            LET b1 == [b EXCEPT
                         !.allResults = @ \o b.chunks[Len(b.chunks)],
                         !.progress = Append(@, <<Min(b.i + BATCH_SIZE, Len(b.posts)),
                                                  Len(b.posts)>>)]
            IN  IF MoreBatches(b1)
                THEN Pair([b1 EXCEPT !.pc = "delaying",
                                     !.events = Append(@, "delay")], NoRetry)
                ELSE BatchLoop([b1 EXCEPT !.i = NextIndex(@)])

\* `await delay(DELAY_BETWEEN_BATCHES)` is over: the next turn of the loop.
BatchAfterDelay(b) == BatchLoop([b EXCEPT !.i = NextIndex(@)])

\* ------------------------------------------------------------------------
\* Pure functions of the AI service
\* ------------------------------------------------------------------------
\* No pure function has been called.
NoCall == [fn |-> "none"]

\* The record of one call: the function, its argument and its result.
Call(fn, arg, result) == [fn |-> fn, arg |-> arg, result |-> result]

\* A post content is the sequence of its elements in document order, each
\* known by its tag; of a paragraph it is also known whether its trimmed text
\* is longer than 80 characters ("p") or not ("p short").
ParagraphTags == {"p", "p short"}
Tags == ParagraphTags \cup {"div"}

Placeholder == "<!-- INSERT_IMAGE_HERE -->"

\* Array.from(doc.body.querySelectorAll('p')): the positions of the paragraphs
\* in the content, in document order.
RECURSIVE ParagraphsFrom(_, _)
ParagraphsFrom(content, k) ==
    IF k > Len(content) THEN <<>>
    ELSE IF content[k] \in ParagraphTags THEN <<k>> \o ParagraphsFrom(content, k + 1)
    ELSE ParagraphsFrom(content, k + 1)

Paragraphs(content) == ParagraphsFrom(content, 1)

\* Faulty variant: the placeholder takes the place of the element.
InsertInstead(content, k, placeholder) ==
    SubSeq(content, 1, k - 1) \o <<placeholder>> \o SubSeq(content, k + 1, Len(content))

\* element.insertAdjacentHTML('afterend', placeholder) for the element at
\* position k
InsertAfter(content, k, placeholder) ==
    SubSeq(content, 1, k) \o <<placeholder>> \o SubSeq(content, k + 1, Len(content))

\* Faulty variant: the third paragraph is the target in a long content.
TargetIndexLater(n) == IF n > 2 THEN 2 ELSE IF n > 1 THEN 0 ELSE -1

\* targetIndex, for n paragraphs
TargetIndex(n) == IF n > 2 THEN 1 ELSE IF n > 1 THEN 0 ELSE -1

\* Faulty variant: without a target index the placeholder is prepended, also
\* when there is a paragraph.
insertPlaceholderPrepending(content, placeholder) ==
    LET paragraphs == Paragraphs(content)
        targetIndex == TargetIndex(Len(paragraphs))
    IN  IF targetIndex # -1 /\ targetIndex + 1 <= Len(paragraphs)
        THEN InsertAfter(content, paragraphs[targetIndex + 1], placeholder)
        ELSE <<placeholder>> \o content

insertPlaceholderHeuristically(content, placeholder) ==
    LET paragraphs == Paragraphs(content)
        targetIndex == TargetIndex(Len(paragraphs))
    IN  IF targetIndex # -1 /\ targetIndex + 1 <= Len(paragraphs)
        THEN InsertAfter(content, paragraphs[targetIndex + 1], placeholder)
        ELSE IF Len(paragraphs) > 0
        THEN InsertAfter(content, paragraphs[Len(paragraphs)], placeholder)
        ELSE <<placeholder>> \o content

\* ------------------------------------------------------------------------
\* getContentWithImagePlaceholder (the AI service)
\* ------------------------------------------------------------------------
\* No getContentWithImagePlaceholder call is in flight.  `via` tells which
\* return statement gave the result, `caught` the error the catch block got.
NoPlacement ==
    [pc |-> "idle", content |-> <<>>, result |-> <<>>, via |-> "none",
     caught |-> NoError, thrown |-> NoError]

IsSignificant(tag) == tag = "p"

\* paragraphs.slice(0, 5) ... .filter(p => p.text.length > 80)
ParagraphsToAnalyze(content) ==
    LET paragraphs == Paragraphs(content)
        tags == [k \in 1..Len(paragraphs) |-> content[paragraphs[k]]]
    IN  SelectSeq(Slice(tags, 0, 5), IsSignificant)

\* return insertPlaceholderHeuristically(postContent, placeholder)
PlacementHeuristic(pl) ==
    [pl EXCEPT !.pc = "returned", !.via = "heuristic",
               !.result = insertPlaceholderHeuristically(pl.content, Placeholder)]

\* Faulty variant: the AI is asked whenever there are 3 paragraphs or more.
getContentWithImagePlaceholderAlwaysAsks(postContent) ==
    LET pl == [NoPlacement EXCEPT !.content = postContent]
    IN  IF Len(Paragraphs(postContent)) < 3
        THEN [placer |-> PlacementHeuristic(pl), retrier |-> NoRetry]
        ELSE [placer |-> [pl EXCEPT !.pc = "calling"],
              retrier |-> retryableAIOperationOn(2, 500)]

\* getContentWithImagePlaceholder(analysisConfig, postContent, postTitle) up
\* to its first await.
getContentWithImagePlaceholderOn(postContent) ==
    LET pl == [NoPlacement EXCEPT !.content = postContent]
    IN  IF Len(Paragraphs(postContent)) < 3
        THEN [placer |-> PlacementHeuristic(pl), retrier |-> NoRetry]
        ELSE IF Len(ParagraphsToAnalyze(postContent)) < 2
        THEN [placer |-> PlacementHeuristic(pl), retrier |-> NoRetry]
        ELSE [placer |-> [pl EXCEPT !.pc = "calling"],
              retrier |-> retryableAIOperationOn(2, 500)]

\* Faulty variant: no catch block, the error leaves the function.
PlacementCatchThrows(pl, error) ==
    [pl EXCEPT !.pc = "thrown", !.thrown = error]

\* The catch block.
PlacementCatch(pl, error) == [PlacementHeuristic(pl) EXCEPT !.caught = error]

\* What generateText resolves to: a text with a run of digits, a text with
\* none, or undefined (response.text of the Gemini client).
Digits(n) == [kind |-> "digits", n |-> n]
NoDigits == [kind |-> "no digits", n |-> 0]
Undefined == [kind |-> "undefined", n |-> 0]

\* parseInt(responseText.trim().match(/\d+/)?.[0] || '1', 10)
ChosenParagraphNumber(responseText) ==
    IF responseText.kind = "digits" THEN responseText.n ELSE 1

TargetParagraphIndex(chosenParagraphNumber, paragraphs) ==
    IF chosenParagraphNumber < 1 \/ chosenParagraphNumber > Len(paragraphs)
    THEN 1
    ELSE chosenParagraphNumber - 1

\* The rest of the try block, once retryableAIOperation has returned.
PlacementResponse(pl, responseText) ==
    IF responseText.kind = "undefined"
    THEN PlacementCatch(pl, Error(<<"Cannot read properties of undefined">>))
    ELSE LET paragraphs == Paragraphs(pl.content)
             targetParagraphIndex ==
                 TargetParagraphIndex(ChosenParagraphNumber(responseText), paragraphs)
         IN  IF targetParagraphIndex \in 0..(Len(paragraphs) - 1)
             THEN [pl EXCEPT !.pc = "returned", !.via = "ai",
                      !.result = InsertAfter(pl.content,
                                     paragraphs[targetParagraphIndex + 1], Placeholder)]
             ELSE PlacementHeuristic(pl)

\* ------------------------------------------------------------------------
\* getFriendlyAIError (the AI service)
\* ------------------------------------------------------------------------
\* The words messages are made of here: those the function looks for, in the
\* letter case it looks for and in another, and one it does not look for.
Words ==
    {"401", "api key", "API Key", "authentication", "Authentication", "404",
     "429", "RESOURCE_EXHAUSTED", "timed out", "Timed Out", "failed"}

\* String.prototype.toLowerCase, on a word and on a message
LowerWord(word) ==
    CASE word = "API Key" -> "api key"
      [] word = "Authentication" -> "authentication"
      [] word = "RESOURCE_EXHAUSTED" -> "resource_exhausted"
      [] word = "Timed Out" -> "timed out"
      [] OTHER -> word

toLowerCase(message) == [k \in DOMAIN message |-> LowerWord(message[k])]

\* A caught value: an Error with a message, or anything else.
Caught(instanceofError, message) ==
    [instanceofError |-> instanceofError, message |-> message]

\* The four friendly messages, by the branch that sets them.
Friendly(branch, provider) ==
    CASE branch = 1 ->
             <<"Authentication failed for", provider, ". Please check your API Key.">>
      [] branch = 2 ->
             <<"Model not found for", provider, ". Please check the model name.">>
      [] branch = 3 ->
             <<"API rate limit exceeded for", provider, ". Please wait and try again.">>
      [] branch = 4 ->
             <<"The request to", provider, "timed out. The service may be unavailable.">>

\* Faulty variant: the 404 test comes first.
getFriendlyAIErrorNotFoundFirst(error, provider) ==
    LET message == IF error.instanceofError THEN error.message
                   ELSE <<"An unknown error occurred.">>
    IN  IF Includes(message, "404") THEN Friendly(2, provider)
        ELSE IF \/ Includes(message, "401")
                \/ Includes(toLowerCase(message), "api key")
                \/ Includes(toLowerCase(message), "authentication")
        THEN Friendly(1, provider)
        ELSE IF Includes(message, "429") \/ Includes(message, "RESOURCE_EXHAUSTED")
        THEN Friendly(3, provider)
        ELSE IF Includes(message, "timed out") THEN Friendly(4, provider)
        ELSE message

getFriendlyAIError(error, provider) ==
    LET message == IF error.instanceofError THEN error.message
                   ELSE <<"An unknown error occurred.">>
    IN  IF \/ Includes(message, "401")
           \/ Includes(toLowerCase(message), "api key")
           \/ Includes(toLowerCase(message), "authentication")
        THEN Friendly(1, provider)
        ELSE IF Includes(message, "404") THEN Friendly(2, provider)
        ELSE IF Includes(message, "429") \/ Includes(message, "RESOURCE_EXHAUSTED")
        THEN Friendly(3, provider)
        ELSE IF Includes(message, "timed out") THEN Friendly(4, provider)
        ELSE message

\* ------------------------------------------------------------------------
\* extractJson (the AI service)
\* ------------------------------------------------------------------------
\* A text is a sequence of pieces: the fence (three backquotes), the word
\* json, a white space, the four brackets, and a letter.  Indices are
\* 0-based, as in the code.
Fence == "<fence>"
Pieces == {Fence, "json", " ", "{", "[", "}", "]", "a"}

\* What extractJson returns: a string, or null.
JsonString(text) == [isNull |-> FALSE, text |-> text]
Null == [isNull |-> TRUE, text |-> <<>>]

\* text.indexOf(piece) and text.lastIndexOf(piece)
IndexOf(text, piece) ==
    IF \E k \in 1..Len(text) : text[k] = piece
    THEN (CHOOSE k \in 1..Len(text) :
             text[k] = piece /\ \A m \in 1..(k - 1) : text[m] # piece) - 1
    ELSE -1

LastIndexOf(text, piece) ==
    IF \E k \in 1..Len(text) : text[k] = piece
    THEN (CHOOSE k \in 1..Len(text) :
             text[k] = piece /\ \A m \in (k + 1)..Len(text) : text[m] # piece) - 1
    ELSE -1

\* text.substring(start, end)
Substring(text, start, end) == SubSeq(text, start + 1, end)

\* String.prototype.trim
RECURSIVE Trim(_)
Trim(text) ==
    IF text = <<>> THEN text
    ELSE IF Head(text) = " " THEN Trim(Tail(text))
    ELSE IF text[Len(text)] = " " THEN Trim(SubSeq(text, 1, Len(text) - 1))
    ELSE text

Max(a, b) == IF a > b THEN a ELSE b

\* text.match(/<fence>(?:json)?\s*([\s\S]*?)\s*<fence>/): the match starts at the
\* first fence that has a fence after it, takes a json that follows at once,
\* and its group is what lies before the next fence, without the white space
\* at both ends.
CodeBlockMatch(text) ==
    LET open == IndexOf(text, Fence)
        rest == Substring(text, open + 1, Len(text))
        close == IndexOf(rest, Fence)
        inner == Substring(rest, 0, close)
        body == IF inner # <<>> /\ Head(inner) = "json" THEN Tail(inner) ELSE inner
    IN  IF open = -1 \/ close = -1
        THEN [matched |-> FALSE, group |-> <<>>]
        ELSE [matched |-> TRUE, group |-> Trim(body)]

\* Faulty variant: of two opening brackets the later one starts the span.
StartIndexLatest(firstBracket, firstSquare) ==
    IF firstBracket = -1 THEN firstSquare
    ELSE IF firstSquare = -1 THEN firstBracket
    ELSE Max(firstBracket, firstSquare)

\* startIndex
StartIndex(firstBracket, firstSquare) ==
    IF firstBracket = -1 THEN firstSquare
    ELSE IF firstSquare = -1 THEN firstBracket
    ELSE Min(firstBracket, firstSquare)

extractJson(text) ==
    LET codeBlockMatch == CodeBlockMatch(text)
        startIndex == StartIndex(IndexOf(text, "{"), IndexOf(text, "["))
        endIndex == Max(LastIndexOf(text, "}"), LastIndexOf(text, "]"))
    IN  IF codeBlockMatch.matched /\ codeBlockMatch.group # <<>>
        THEN JsonString(Trim(codeBlockMatch.group))
        ELSE IF startIndex = -1 THEN Null
        ELSE IF endIndex = -1 \/ endIndex < startIndex THEN Null
        ELSE JsonString(Trim(Substring(text, startIndex, endIndex + 1)))

\* ------------------------------------------------------------------------
\* Inputs
\* ------------------------------------------------------------------------
\* The payloads the handlers build (handleAutoInsert, handleManualInsert,
\* handleUploadImage) and, for each checked action, a payload that lacks what
\* the action needs.
AutoInsertPayload == [NoPayload EXCEPT !.imageUrl = TRUE, !.altText = TRUE]
ManualInsertPayload == [AutoInsertPayload EXCEPT !.prebuiltContent = TRUE]
UploadPayload == [NoPayload EXCEPT !.altText = TRUE, !.imageDataUrl = TRUE]
UploadNoAltPayload == [NoPayload EXCEPT !.imageDataUrl = TRUE]

Kind(action, payload) == [action |-> action, payload |-> payload]

AllKinds ==
    {Kind("generate", NoPayload), Kind("set_featured", NoPayload),
     Kind("insert", AutoInsertPayload), Kind("insert", NoPayload),
     Kind("insert_at", ManualInsertPayload), Kind("insert_at", AutoInsertPayload),
     Kind("upload_insert", UploadPayload), Kind("upload_insert", UploadNoAltPayload)}

\* The scheduler is exercised with a job that suspends once and may fail
\* (insert_at) and a job that fails before its first await (insert, no payload).
SchedKinds ==
    {Kind("insert_at", ManualInsertPayload), Kind("insert", NoPayload)}

JobsOf(P, K) ==
    {[post |-> p, action |-> k.action, payload |-> k.payload] : p \in P, k \in K}

\* All sequences over S of length 1..n.
SeqsUpTo(S, n) == UNION {[1..k -> S] : k \in 1..n}

Created == Cardinality({j \in JobIds : exec[j].pc # "new"})

\* No microtask is pending: event handlers and effects are tasks, and a task
\* starts only when the microtask queue (the .finally reactions of settled
\* jobs) is empty.
NoMicrotask == \A j \in JobIds : exec[j].pc # "settled"

\* ------------------------------------------------------------------------
\* The state-based scheduler (the variant of the component in part_000)
\* ------------------------------------------------------------------------
\* The variant keeps jobQueue and activeJobs in React state and starts jobs
\* from an effect.  `running` counts, per post, the processJob executions
\* started and not yet finished; `created` and `cleared` are history.
STATE_MAX_CONCURRENT_JOBS == 20

NumStatePosts == 2
StatePostIds == 1..NumStatePosts
\* Largest number of jobs enqueued in one run.
MaxStateJobs == 22

NoStateScheduler ==
    [jobQueue |-> <<>>, activeJobs |-> <<>>,
     running |-> [p \in StatePostIds |-> 0], created |-> 0, cleared |-> FALSE]

\* The jobs of `list` that target post p.
JobsOnPost(list, p) ==
    LET OnPost(job) == job.post = p IN SelectSeq(list, OnPost)

JobsOffPost(list, p) ==
    LET OffPost(job) == job.post # p IN SelectSeq(list, OffPost)

\* The condition under which the processQueue effect does anything.
processQueueStarts(q) ==
    Len(q.jobQueue) > 0 /\ Len(q.activeJobs) < STATE_MAX_CONCURRENT_JOBS

\* The processQueue effect: the first free-slots jobs leave the queue, join
\* activeJobs and start running.
processQueueOn(q) ==
    IF processQueueStarts(q)
    THEN LET n == Min(STATE_MAX_CONCURRENT_JOBS - Len(q.activeJobs), Len(q.jobQueue))
             nextJobs == SubSeq(q.jobQueue, 1, n)
             remainingQueue == SubSeq(q.jobQueue, n + 1, Len(q.jobQueue))
         IN  [q EXCEPT !.jobQueue = remainingQueue,
                       !.activeJobs = @ \o nextJobs,
                       !.running = [p \in StatePostIds |->
                                       @[p] + Len(JobsOnPost(nextJobs, p))]]
    ELSE q

\* The .finally reaction of a job on post p.
processJobFinallyOn(q, p) ==
    [q EXCEPT !.running[p] = @ - 1,
              !.activeJobs = JobsOffPost(@, p)]

\* The variant's addJobsToQueue(jobs).
stateAddJobsToQueueOn(q, newJobs) ==
    IF Len(newJobs) = 0 THEN q
    ELSE [q EXCEPT !.jobQueue = @ \o newJobs, !.created = @ + Len(newJobs)]

\* The variant's handleClearCompleted.
stateHandleClearCompletedOn(q) ==
    [q EXCEPT !.jobQueue = <<>>, !.activeJobs = <<>>, !.cleared = TRUE]

\* ------------------------------------------------------------------------
\* Specification
\* ------------------------------------------------------------------------
Init ==
    /\ posts = [p \in PostIds |-> InitialPost]
    /\ postsRef = [p \in PostIds |-> Snapshot(InitialPost)]
    /\ jobQueue = <<>>
    /\ activeCount = 0
    /\ isProcessing = FALSE
    /\ batchPostIds = {}
    /\ totalModalJobs = 0
    /\ isProgressModalOpen = FALSE
    /\ jobs = [j \in JobIds |-> NoJob]
    /\ exec = [j \in JobIds |-> NoExec]
    /\ started = <<>>
    /\ trace = [j \in JobIds |-> <<>>]
    /\ clearCalls = 0
    /\ altSave = NoAltSave
    /\ retrier = NoRetry
    /\ batcher = NoBatch
    /\ pure = NoCall
    /\ placer = NoPlacement
    /\ stateScheduler = NoStateScheduler

\* addJobsToQueue(jobs), the jobs drawn from `batches`, in a run that creates
\* at most `budget` jobs.
addJobsToQueue(batches, budget) ==
    /\ NoMicrotask
    /\ \E batch \in batches :
          /\ Created + Len(batch) <= budget
          /\ Becomes(addJobsToQueueOn(Cur, batch))

handleClearCompleted ==
    /\ NoMicrotask
    /\ clearCalls < MaxClears
    /\ Becomes(handleClearCompletedOn(Cur))

\* A remote call of job j ends and processJob goes on to its next await.
ResumeJob(j) ==
    /\ exec[j].pc \in RemoteCalls
    /\ \E outcome \in Outcomes(exec[j].pc) :
          Becomes(processJobResume(Cur, j, outcome))

Resume == \E j \in JobIds : ResumeJob(j)

\* The .finally reaction of the settled job j runs.
FinallyJob(j) ==
    /\ exec[j].pc = "settled"
    /\ Becomes(OnFinally(Cur, j))

Finally == \E j \in JobIds : FinallyJob(j)

\* useEffect(() => { postsRef.current = posts; }, [posts])
PostsRefEffect ==
    /\ NoMicrotask
    /\ postsRef # [p \in PostIds |-> Snapshot(posts[p])]
    /\ postsRef' = [p \in PostIds |-> Snapshot(posts[p])]
    /\ UNCHANGED <<posts, jobQueue, activeCount, isProcessing, batchPostIds,
                   totalModalJobs, isProgressModalOpen, jobs, exec, started,
                   trace, clearCalls, altSave, retrier, batcher, pure, placer,
                   stateScheduler>>

\* Spec: the scheduler under enqueue calls of one or more jobs on one post,
\* clear, and completions in any order.
SchedBatches == SeqsUpTo(JobsOf({1}, SchedKinds), MaxJobs)

Next ==
    \/ addJobsToQueue(SchedBatches, MaxJobs)
    \/ handleClearCompleted
    \/ Resume
    \/ Finally
    \/ PostsRefEffect

Spec == Init /\ [][Next]_vars

\* SpecBatch: one enqueue call with one job per post (a manual insertion, which
\* shows a non-terminal status while it runs), no clear.
OneJobPerPost ==
    {[i \in 1..NumPosts |->
        [post |-> i, action |-> "insert_at", payload |-> ManualInsertPayload]]}

NextBatch ==
    \/ addJobsToQueue(OneJobPerPost, MaxJobs)
    \/ Resume
    \/ Finally
    \/ PostsRefEffect

SpecBatch == Init /\ [][NextBatch]_vars

\* SpecLive: Spec without clear, where every remote call ends and every
\* queued reaction runs (the event loop runs a queued microtask; the claim
\* about starvation assumes that every started job completes).
NextLive ==
    \/ addJobsToQueue(SchedBatches, MaxJobs)
    \/ Resume
    \/ Finally
    \/ PostsRefEffect

\* Weak fairness of Resume and of Finally, with ENABLED written out: Resume is
\* enabled exactly when a job is suspended on a remote call, Finally exactly
\* when a job is settled, and both steps change exec.
ResumeEnabled == \E j \in JobIds : exec[j].pc \in RemoteCalls
FinallyEnabled == \E j \in JobIds : exec[j].pc = "settled"

Fairness ==
    /\ []<>(~ResumeEnabled) \/ []<><<Resume>>_vars
    /\ []<>(~FinallyEnabled) \/ []<><<Finally>>_vars

SpecLive == Init /\ [][NextLive]_vars /\ Fairness

\* SpecFair: Spec with a smaller budget of jobs, where every remote call ends
\* and every queued reaction runs.
MaxFairJobs == 3

NextFair ==
    \/ addJobsToQueue(SchedBatches, MaxFairJobs)
    \/ handleClearCompleted
    \/ Resume
    \/ Finally
    \/ PostsRefEffect

SpecFair == Init /\ [][NextFair]_vars /\ Fairness

\* SpecJob: the job processor under every action and payload, the jobs on one
\* post so that concurrent jobs meet on the same entity, no clear.
\* Total number of jobs in a run of SpecJob.
MaxProcJobs == 2

ProcBatches == SeqsUpTo(JobsOf({1}, AllKinds), MaxProcJobs)

NextJob ==
    \/ addJobsToQueue(ProcBatches, MaxProcJobs)
    \/ Resume
    \/ Finally
    \/ PostsRefEffect

SpecJob == Init /\ [][NextJob]_vars

\* SpecAlt: generate jobs on two posts and bulk alt-text saves for the
\* generated images, one save at a time.
\* Total number of jobs in a run of SpecAlt.
MaxAltJobs == 2

AltPosts == {1, 2}

AltBatches == SeqsUpTo(JobsOf(AltPosts, {Kind("generate", NoPayload)}), MaxAltJobs)

\* The media ids of the generated images the posts show.
ShownMediaIds == {posts[p].generatedImage.mediaId : p \in {q \in PostIds : HasImage(posts[q])}}

handleSaveAltText ==
    /\ NoMicrotask
    /\ altSave.pc = "idle"
    /\ \E mediaIds \in SUBSET ShownMediaIds \ {{}} :
          Becomes(handleSaveAltTextOn(Cur, mediaIds))

SaveAltTextDone ==
    /\ NoMicrotask
    /\ altSave.pc = "saving"
    /\ \E results \in [altSave.mediaIds -> BOOLEAN] :
          Becomes(handleSaveAltTextDone(Cur, results))

NextAlt ==
    \/ addJobsToQueue(AltBatches, MaxAltJobs)
    \/ Resume
    \/ Finally
    \/ PostsRefEffect
    \/ handleSaveAltText
    \/ SaveAltTextDone

SpecAlt == Init /\ [][NextAlt]_vars

\* SpecRetry: one retryableAIOperation call, with every outcome of every
\* invocation of apiCall.
\* Largest number of attempts (the callers pass 2 or the default 3).
MaxRetries == 3
\* The initial delays of the callers: the default and that of line 554.
InitialDelays == {500, 2000}

componentVars ==
    <<posts, postsRef, jobQueue, activeCount, isProcessing, batchPostIds,
      totalModalJobs, isProgressModalOpen, jobs, exec, started, trace,
      clearCalls, altSave>>

retryableAIOperation ==
    /\ retrier.pc = "idle"
    /\ \E retries \in 1..MaxRetries, initialDelay \in InitialDelays :
          retrier' = retryableAIOperationOn(retries, initialDelay)
    /\ UNCHANGED <<componentVars, stateScheduler, batcher, pure, placer>>

ApiCallReturns ==
    /\ retrier.pc = "calling"
    /\ retrier' = RetryReturn(retrier)
    /\ UNCHANGED <<componentVars, stateScheduler, batcher, pure, placer>>

ApiCallThrows ==
    /\ retrier.pc = "calling"
    /\ \E error \in ApiErrors : retrier' = RetryCatch(retrier, error)
    /\ UNCHANGED <<componentVars, stateScheduler, batcher, pure, placer>>

DelayEnds ==
    /\ retrier.pc = "waiting"
    /\ retrier' = RetryAfterDelay(retrier)
    /\ UNCHANGED <<componentVars, stateScheduler, batcher, pure, placer>>

NextRetry ==
    \/ retryableAIOperation
    \/ ApiCallReturns
    \/ ApiCallThrows
    \/ DelayEnds

SpecRetry == Init /\ [][NextRetry]_vars

\* SpecChunks: one generateImageBriefsAndAltsBatch call on 0..MaxItems posts,
\* with every outcome of every invocation and every kind of response.
\* Largest number of posts handed to the call.
MaxItems == 41

generateImageBriefsAndAltsBatch ==
    /\ batcher.pc = "idle"
    /\ \E n \in 0..MaxItems :
          LET s == generateImageBriefsAndAltsBatchOn([k \in 1..n |-> k])
          IN  batcher' = s.batcher /\ retrier' = s.retrier
    /\ UNCHANGED <<componentVars, stateScheduler, pure, placer>>

\* The retrier has returned the response of the batch.
BatchGetsResponse ==
    /\ batcher.pc = "calling"
    /\ retrier.pc = "returned"
    /\ \E kind \in ResponseKinds :
          LET s == BatchResponse(batcher, kind)
          IN  batcher' = s.batcher /\ retrier' = s.retrier
    /\ UNCHANGED <<componentVars, stateScheduler, pure, placer>>

\* The retrier has thrown.
BatchGetsError ==
    /\ batcher.pc = "calling"
    /\ retrier.pc = "thrown"
    /\ LET s == BatchCatch(batcher, retrier.thrown)
       IN  batcher' = s.batcher /\ retrier' = s.retrier
    /\ UNCHANGED <<componentVars, stateScheduler, pure, placer>>

BatchDelayEnds ==
    /\ batcher.pc = "delaying"
    /\ LET s == BatchAfterDelay(batcher)
       IN  batcher' = s.batcher /\ retrier' = s.retrier
    /\ UNCHANGED <<componentVars, stateScheduler, pure, placer>>

NextChunks ==
    \/ generateImageBriefsAndAltsBatch
    \/ ApiCallReturns
    \/ ApiCallThrows
    \/ DelayEnds
    \/ BatchGetsResponse
    \/ BatchGetsError
    \/ BatchDelayEnds

SpecChunks == Init /\ [][NextChunks]_vars

\* SpecHeuristic: one insertPlaceholderHeuristically call on every content of
\* up to MaxBlocks elements, paragraphs and others.
MaxBlocks == 6

Contents == UNION {[1..k -> Tags] : k \in 0..MaxBlocks}

insertPlaceholderHeuristicallyCall ==
    /\ pure.fn = "none"
    /\ \E content \in Contents :
          pure' = Call("insertPlaceholderHeuristically", content,
                       insertPlaceholderHeuristically(content, Placeholder))
    /\ UNCHANGED <<componentVars, stateScheduler, retrier, batcher, placer>>

SpecHeuristic == Init /\ [][insertPlaceholderHeuristicallyCall]_vars

\* SpecPlace: one getContentWithImagePlaceholder call on every content of up
\* to MaxBlocks elements, with every outcome of every invocation of
\* generateText and every kind of response.
ResponseTexts == {NoDigits, Undefined} \cup {Digits(n) : n \in 0..(MaxBlocks + 1)}

getContentWithImagePlaceholder ==
    /\ placer.pc = "idle"
    /\ \E postContent \in Contents :
          LET s == getContentWithImagePlaceholderOn(postContent)
          IN  placer' = s.placer /\ retrier' = s.retrier
    /\ UNCHANGED <<componentVars, stateScheduler, batcher, pure>>

\* The retrier has returned the response text.
PlacementGetsResponse ==
    /\ placer.pc = "calling"
    /\ retrier.pc = "returned"
    /\ \E responseText \in ResponseTexts :
          placer' = PlacementResponse(placer, responseText)
    /\ UNCHANGED <<componentVars, stateScheduler, retrier, batcher, pure>>

\* The retrier has thrown.
PlacementGetsError ==
    /\ placer.pc = "calling"
    /\ retrier.pc = "thrown"
    /\ placer' = PlacementCatch(placer, retrier.thrown)
    /\ UNCHANGED <<componentVars, stateScheduler, retrier, batcher, pure>>

NextPlace ==
    \/ getContentWithImagePlaceholder
    \/ ApiCallReturns
    \/ ApiCallThrows
    \/ DelayEnds
    \/ PlacementGetsResponse
    \/ PlacementGetsError

SpecPlace == Init /\ [][NextPlace]_vars

\* SpecFriendly: one getFriendlyAIError call on every caught value whose
\* message has up to MaxWords words.
MaxWords == 2

Messages == UNION {[1..k -> Words] : k \in 0..MaxWords}

Providers == {"gemini", "openai"}

getFriendlyAIErrorCall ==
    /\ pure.fn = "none"
    /\ \E instanceofError \in BOOLEAN, message \in Messages, provider \in Providers :
          LET error == Caught(instanceofError, message)
          IN  pure' = Call("getFriendlyAIError",
                           [error |-> error, provider |-> provider],
                           getFriendlyAIError(error, provider))
    /\ UNCHANGED <<componentVars, stateScheduler, retrier, batcher, placer>>

SpecFriendly == Init /\ [][getFriendlyAIErrorCall]_vars

\* SpecExtract: one extractJson call on every text of up to MaxPieces
\* pieces.
MaxPieces == 5

Texts == UNION {[1..k -> Pieces] : k \in 0..MaxPieces}

extractJsonCall ==
    /\ pure.fn = "none"
    /\ \E text \in Texts : pure' = Call("extractJson", text, extractJson(text))
    /\ UNCHANGED <<componentVars, stateScheduler, retrier, batcher, placer>>

SpecExtract == Init /\ [][extractJsonCall]_vars

\* SpecState: the variant under handleGenerate calls on all the posts (the
\* bulk action), clears, and job completions in every order.  An event
\* handler runs only once the effect of the previous render has run.
Selections == {[i \in 1..NumStatePosts |-> [post |-> i]]}

stateHandleGenerate ==
    /\ ~processQueueStarts(stateScheduler)
    /\ \E newJobs \in Selections :
          /\ stateScheduler.created + Len(newJobs) <= MaxStateJobs
          /\ stateScheduler' = stateAddJobsToQueueOn(stateScheduler, newJobs)
    /\ UNCHANGED <<componentVars, retrier, batcher, pure, placer>>

processQueue ==
    /\ processQueueStarts(stateScheduler)
    /\ stateScheduler' = processQueueOn(stateScheduler)
    /\ UNCHANGED <<componentVars, retrier, batcher, pure, placer>>

processJobFinally ==
    /\ \E p \in StatePostIds :
          /\ stateScheduler.running[p] > 0
          /\ stateScheduler' = processJobFinallyOn(stateScheduler, p)
    /\ UNCHANGED <<componentVars, retrier, batcher, pure, placer>>

stateHandleClearCompleted ==
    /\ ~processQueueStarts(stateScheduler)
    /\ ~stateScheduler.cleared
    /\ stateScheduler' = stateHandleClearCompletedOn(stateScheduler)
    /\ UNCHANGED <<componentVars, retrier, batcher, pure, placer>>

NextState ==
    \/ stateHandleGenerate
    \/ processQueue
    \/ processJobFinally
    \/ stateHandleClearCompleted

SpecState == Init /\ [][NextState]_vars

\* ------------------------------------------------------------------------
\* Claims
\* ------------------------------------------------------------------------
Pending(j) == exec[j].pc = "queued"
InFlight(j) == exec[j].pc \in RemoteCalls \cup {"settled"}
WasStarted(j) == exec[j].pc \in RemoteCalls \cup {"settled", "done"}

\* The step in which the .finally reaction of job j runs.
Completes(j) == exec[j].pc = "settled" /\ exec'[j].pc = "done"

\* C1: in any sequence of enqueue calls and job completions with no clear,
\* the active-count never exceeds MAX_CONCURRENT_JOBS.
C1_ActiveCountAtMostMax ==
    clearCalls = 0 => activeCount <= MAX_CONCURRENT_JOBS

\* The ceiling is reached with a job left waiting.
C1_Witness ==
    clearCalls = 0 /\ activeCount = MAX_CONCURRENT_JOBS /\ Len(jobQueue) > 0

\* C2: in every reachable state, under any interleaving of enqueue, clear and
\* completions, 0 <= active-count <= MAX_CONCURRENT_JOBS; it never becomes
\* negative when jobs that ran at the time of a clear complete afterwards.
C2_ActiveCountInRange ==
    0 <= activeCount /\ activeCount <= MAX_CONCURRENT_JOBS

\* C3: every enqueue call with at least one job drains: when it returns,
\* active-count = MAX_CONCURRENT_JOBS or the pending sequence is empty, also
\* when earlier jobs are still running.
C3_EnqueueDrains ==
    [][Created' > Created =>
          (activeCount' = MAX_CONCURRENT_JOBS \/ Len(jobQueue') = 0)]_vars

\* C4: the completion of an active job, succeeded or failed, decrements
\* active-count and runs an admission attempt: if jobs are pending at that
\* moment, the head of the pending sequence is started in the same step.
C4_CompletionAdmits ==
    [][\A j \in JobIds : Completes(j) =>
          /\ activeCount' = activeCount - 1 + (Len(started') - Len(started))
          /\ Len(jobQueue) > 0 =>
                /\ Len(started') > Len(started)
                /\ started'[Len(started) + 1] = Head(jobQueue)]_vars

\* A fourth job runs beside two others with no clear: an enqueue call admits
\* nothing while jobs run, so a completion admitted it; and a job has failed.
C4_Witness ==
    /\ clearCalls = 0
    /\ Len(started) > MAX_CONCURRENT_JOBS
    /\ activeCount = MAX_CONCURRENT_JOBS
    /\ \E p \in PostIds : posts[p].status = "error"

\* C5: no starvation: if every started job completes and clear is never
\* called, every job ever enqueued is eventually started.
C5_NoStarvation ==
    \A j \in JobIds : Pending(j) ~> WasStarted(j)

\* Every job of the run was started, the last ones after waiting.
C5_Witness ==
    clearCalls = 0 /\ \A j \in JobIds : WasStarted(j)

\* C6: jobs are admitted in FIFO order: of two started jobs, the one appended
\* to the pending sequence first (the smaller id) was started first.
C6_FifoAdmission ==
    \A i, k \in 1..Len(started) : i < k => started[i] < started[k]

\* Jobs of two enqueue calls were started while a later one still waits.
C6_Witness ==
    /\ Len(started) >= MAX_CONCURRENT_JOBS
    /\ Len(jobQueue) > 0
    /\ \E j \in JobIds : exec[j].pc = "done"

\* The step in which handleClearCompleted runs.
Clears == clearCalls' = clearCalls + 1

\* C7: after clear with no further enqueue the pending sequence is empty and
\* stays empty, no discarded job is ever started, and every job that was
\* active at the time of clear is left running, completes, and applies its
\* updates: at its end its entity shows success or error.
C7_ClearKeepsRunningJobs ==
    /\ [][/\ Clears => Len(jobQueue') = 0
          /\ (Len(jobQueue) = 0 /\ Created' = Created) => Len(jobQueue') = 0
          /\ \A j \in JobIds :
                /\ exec[j].pc = "discarded" => exec'[j].pc = "discarded"
                /\ (Clears /\ Pending(j)) => exec'[j].pc = "discarded"
                /\ (Clears /\ InFlight(j)) =>
                        exec'[j] = exec[j] /\ jobs'[j] = jobs[j]
                /\ (clearCalls > 0 /\ exec[j].pc \in RemoteCalls
                        /\ exec'[j].pc = "settled") =>
                        posts'[jobs[j].post].status \in {"success", "error"}]_vars
    /\ \A j \in JobIds : (clearCalls > 0 /\ InFlight(j)) ~> exec[j].pc = "done"

\* After a clear that discarded a job, a job that was running at that time
\* has completed (the count fell below zero) and its post shows success.
C7_Witness ==
    /\ clearCalls > 0
    /\ activeCount < 0
    /\ Len(jobQueue) = 0
    /\ \E j \in JobIds : exec[j].pc = "discarded"
    /\ \E p \in PostIds : posts[p].status = "success"

NonTerminal(status) == status \notin {"idle", "success", "error"}
NonTerminalPosts == {p \in PostIds : NonTerminal(posts[p].status)}

\* C8: when more jobs on distinct entities are enqueued than
\* MAX_CONCURRENT_JOBS, at every instant at most MAX_CONCURRENT_JOBS entities
\* show a non-terminal status.
C8_NonTerminalAtMostMax ==
    Cardinality(NonTerminalPosts) <= MAX_CONCURRENT_JOBS

\* Three entities are in a non-terminal status and a fourth job waits.
C8_Witness ==
    /\ Cardinality(NonTerminalPosts) = MAX_CONCURRENT_JOBS
    /\ Len(jobQueue) > 0

\* The fixed status sequence of each action.
StepSequence(action) ==
    CASE action = "generate" ->
            <<"generating_brief", "generating_image", "uploading", "success">>
      [] action = "insert" -> <<"analyzing_placement", "inserting", "success">>
      [] action = "insert_at" -> <<"inserting", "success">>
      [] action = "set_featured" -> <<"setting_featured", "success">>
      [] action = "upload_insert" ->
            <<"uploading", "analyzing_placement", "inserting", "success">>

IsPublish(e) == e.kind = "publish"
RECURSIVE Whats(_)
Whats(events) ==
    IF events = <<>> THEN <<>> ELSE <<Head(events).what>> \o Whats(Tail(events))

\* The statuses job j has published so far, in order.
Published(j) == Whats(SelectSeq(trace[j], IsPublish))

IsPrefix(a, b) == Len(a) <= Len(b) /\ a = SubSeq(b, 1, Len(a))
Front(a) == SubSeq(a, 1, Len(a) - 1)

\* C9: the statuses a job publishes follow its action's fixed sequence with no
\* step skipped or repeated: they are a prefix of it (success only as its last
\* element, after all steps), or a prefix without success followed by error.
C9_StatusSequence ==
    \A j \in JobIds : trace[j] # <<>> =>
        LET pub == Published(j)
            steps == StepSequence(jobs[j].action)
        IN  \/ IsPrefix(pub, steps)
            \/ /\ pub[Len(pub)] = "error"
               /\ IsPrefix(Front(pub), Front(steps))

\* One job has published the whole sequence of upload_insert, another one an
\* error after a proper prefix of its sequence.
C9_Witness ==
    /\ \E j \in JobIds :
          /\ jobs[j].action = "upload_insert"
          /\ Published(j) = StepSequence("upload_insert")
    /\ \E j \in JobIds :
          /\ jobs[j].action = "generate"
          /\ Published(j) = <<"generating_brief", "generating_image", "error">>

\* The status of the step that issues `call` in `action`.
StepStatus(action, call) ==
    CASE call = "generateImageBriefsAndAltsBatch" -> "generating_brief"
      [] call = "generateImage" -> "generating_image"
      [] call = "uploadImage" -> "uploading"
      [] call = "getContentWithImagePlaceholder" -> "analyzing_placement"
      [] call = "updatePost" /\ action = "set_featured" -> "setting_featured"
      [] call = "updatePost" /\ action # "set_featured" -> "inserting"

\* C10: each step's status is published before the step's remote call is
\* issued: when a call is issued the entity shows the status of that step, and
\* the job's event right before the call is the publication of that status.
C10_PublishBeforeCall ==
    \A j \in JobIds : \A i \in 1..Len(trace[j]) :
        trace[j][i].kind = "call" =>
            LET status == StepStatus(jobs[j].action, trace[j][i].what)
            IN  /\ trace[j][i].shown = status
                /\ i > 1
                /\ trace[j][i - 1].kind = "publish"
                /\ trace[j][i - 1].what = status
                /\ trace[j][i - 1].shown = status

\* Two jobs are suspended on the remote call of their last step, having issued
\* the calls of all their steps.
C10_Witness ==
    /\ \E j \in JobIds :
          jobs[j].action = "upload_insert" /\ exec[j].pc = "updatePost"
    /\ \E j \in JobIds :
          jobs[j].action = "generate" /\ exec[j].pc = "uploadImage"

\* The last event of job j's history.
LastEvent(j) == trace[j][Len(trace[j])]

\* C11: when a step of a job fails, the job sets its entity to error with the
\* failure's message and nothing of the job runs after that: the error update
\* follows the failure at once, it is the job's last event (no further remote
\* call, no further status) and processJob has returned.
C11_FailureEndsJob ==
    \A j \in JobIds : \A i \in 1..Len(trace[j]) :
        trace[j][i].kind = "throw" =>
            /\ Len(trace[j]) = i + 1
            /\ trace[j][i + 1].kind = "publish"
            /\ trace[j][i + 1].updates =
                   [status |-> "error", statusMessage |-> trace[j][i].what]
            /\ trace[j][i + 1].shown = "error"
            /\ exec[j].pc = "settled"

\* An upload_insert job failed in its last step, after the calls of the steps
\* before, and its post shows the failure's message.
C11_Witness ==
    \E j \in JobIds :
        /\ jobs[j].action = "upload_insert"
        /\ Len(trace[j]) = 8
        /\ trace[j][6] = Event("call", "updatePost", "inserting")
        /\ trace[j][7].kind = "throw"
        /\ posts[jobs[j].post].status = "error"
        /\ posts[jobs[j].post].statusMessage = Cause("updatePost")

\* What processJob requires of the job before the first step of its action.
MissingPrecondition(j) ==
    LET job == jobs[j]
    IN  \/ job.action = "insert" /\ ~job.payload.imageUrl
        \/ job.action = "insert_at" /\ ~job.payload.prebuiltContent
        \/ job.action = "upload_insert"
              /\ (~job.payload.imageDataUrl \/ ~job.payload.altText)
        \/ job.action = "set_featured"
              /\ exec[j].currentPost.generatedImage.mediaId = 0

\* C12: a started job whose required payload or precondition is missing has
\* set its entity to error and nothing else: no intermediate status was
\* published and no remote call was attempted.
C12_PreconditionFailure ==
    \A j \in JobIds : (InFlight(j) /\ MissingPrecondition(j)) =>
        /\ exec[j].pc = "settled"
        /\ Len(trace[j]) = 2
        /\ trace[j][1].kind = "throw"
        /\ trace[j][2].kind = "publish"
        /\ trace[j][2].what = "error"
        /\ trace[j][2].shown = "error"

\* A set_featured job on a post without generated image and an upload_insert
\* job without alt text have both ended in error.
C12_Witness ==
    /\ \E j \in JobIds :
          /\ jobs[j].action = "set_featured"
          /\ exec[j].pc = "settled"
          /\ MissingPrecondition(j)
    /\ \E j \in JobIds :
          /\ jobs[j].action = "upload_insert"
          /\ exec[j].pc = "settled"
          /\ MissingPrecondition(j)
    /\ posts[1].status = "error"

\* The generatedImage of `image` is that of the asset job j uploaded.
IsUploadOf(image, j) ==
    /\ image.url = UploadedImage(j)
    /\ image.mediaId = UploadedImage(j)
    /\ image.url # NoImage.url
    /\ image.mediaId # NoImage.mediaId

\* C13: a generate job never sets the status success without setting
\* generatedImage, to the uploaded asset's url and media id, in the same
\* update; and when a generate job succeeds its entity shows success and that
\* generatedImage.
C13_GenerateSetsImage ==
    /\ [](\A j \in JobIds : \A i \in 1..Len(trace[j]) :
            (/\ jobs[j].action = "generate"
             /\ trace[j][i].kind = "publish"
             /\ trace[j][i].what = "success") =>
                /\ "generatedImage" \in DOMAIN trace[j][i].updates
                /\ IsUploadOf(trace[j][i].updates.generatedImage, j))
    /\ [][\A j \in JobIds :
            (/\ jobs[j].action = "generate"
             /\ exec[j].pc = "uploadImage"
             /\ exec'[j].pc = "settled"
             /\ LastEvent(j)'.what = "success") =>
                /\ posts'[jobs[j].post].status = "success"
                /\ IsUploadOf(posts'[jobs[j].post].generatedImage, j)]_vars

\* A generate job has succeeded after all its steps.
C13_Witness ==
    \E j \in JobIds :
        /\ jobs[j].action = "generate"
        /\ exec[j].pc = "settled"
        /\ Published(j) = StepSequence("generate")
        /\ posts[jobs[j].post].status = "success"
        /\ IsUploadOf(posts[jobs[j].post].generatedImage, j)

InsertActions == {"insert", "insert_at", "upload_insert"}

\* The step in which an insertion job j ends with success.
InsertSucceeds(j) ==
    /\ jobs[j].action \in InsertActions
    /\ exec[j].pc = "updatePost"
    /\ exec'[j].pc = "settled"
    /\ LastEvent(j)'.what = "success"

\* C14: each successful insert, insert_at or upload_insert job increases its
\* entity's imageCount by exactly 1 and leaves the entity's content equal to
\* the content the job wrote, so that k successful jobs on one entity add k
\* to its imageCount in any interleaving the scheduler allows.
C14_InsertAddsOne ==
    [][\A j \in JobIds : InsertSucceeds(j) =>
          /\ posts'[jobs[j].post].imageCount = posts[jobs[j].post].imageCount + 1
          /\ posts'[jobs[j].post].content = LastEvent(j)'.updates.content]_vars

\* The remote call of the first step of each action.
FirstCall(action) ==
    CASE action = "generate" -> "generateImageBriefsAndAltsBatch"
      [] action = "insert" -> "getContentWithImagePlaceholder"
      [] action = "insert_at" -> "updatePost"
      [] action = "set_featured" -> "updatePost"
      [] action = "upload_insert" -> "uploadImage"

\* The step in which processJob is called for job j.
Starts(j) ==
    /\ exec[j].pc \in {"new", "queued"}
    /\ exec'[j].pc \in RemoteCalls \cup {"settled"}

\* Job j has done the first step of its action and nothing more: it has
\* published the first status and is suspended on the first call, or, its
\* precondition missing, it has failed on the precondition.
AtFirstStep(j) ==
    IF MissingPrecondition(j)
    THEN exec[j].pc = "settled" /\ trace[j][1].kind = "throw"
    ELSE /\ exec[j].pc = FirstCall(jobs[j].action)
         /\ Len(trace[j]) = 2
         /\ trace[j][1].kind = "publish"
         /\ trace[j][1].what = StepSequence(jobs[j].action)[1]
         /\ trace[j][2].kind = "call"
         /\ trace[j][2].what = FirstCall(jobs[j].action)

\* C15: an enqueue call is accepted whatever the entity's status is, in
\* particular after a job for the same action and entity ended in error, and
\* a job that is started begins with the first step of its action regardless
\* of the status its entity shows at that time.
C15_RestartFromFirstStep ==
    [][/\ \A j \in JobIds : (exec[j].pc = "new" /\ exec'[j].pc # "new") =>
              exec'[j].pc \in {"queued"} \cup RemoteCalls \cup {"settled"}
       /\ \A j \in JobIds : Starts(j) => AtFirstStep(j)']_vars

\* A generate job has ended in error, its entity shows that error, and a
\* second generate job for the same entity has been accepted and starts next.
C15_Witness ==
    \E i, j \in JobIds :
        /\ exec[i].pc = "settled"
        /\ jobs[i].action = "generate"
        /\ LastEvent(i).what = "error"
        /\ posts[jobs[i].post].status = "error"
        /\ Pending(j)
        /\ jobs[j] = jobs[i]

\* Job j has published an update or issued a call in this step.
Acted(j) == Len(trace'[j]) > Len(trace[j])

\* C16: an update applied by a job modifies only the entity of that job: an
\* entity changes in a step only if a job on that entity acted in it; and a
\* job that fails changes of its own entity the status and the message only,
\* while all other entities keep all their fields.
C16_UpdatesOwnEntityOnly ==
    [][/\ \A p \in PostIds : posts'[p] # posts[p] =>
              \E j \in JobIds : Acted(j) /\ jobs'[j].post = p
       /\ \A j \in JobIds :
              (exec[j].pc \in RemoteCalls /\ Acted(j)
                    /\ LastEvent(j)'.what = "error") =>
                 /\ \A p \in PostIds \ {jobs[j].post} : posts'[p] = posts[p]
                 /\ posts'[jobs[j].post] =
                       Merge(posts[jobs[j].post], LastEvent(j)'.updates)
                 /\ DOMAIN LastEvent(j)'.updates = {"status", "statusMessage"}]_vars

\* One job has failed and another has succeeded while a third is running and
\* the entity of a waiting job is untouched.
C16_Witness ==
    \E p1, p2, p3, p4 \in PostIds :
        /\ posts[p1].status = "error"
        /\ posts[p1].imageCount = 0
        /\ posts[p2].status = "success"
        /\ posts[p2].imageCount = 1
        /\ posts[p3].status = "inserting"
        /\ posts[p4] = InitialPost

\* C17: every entity status transition is total: an update that changes the
\* status of an entity sets its statusMessage in the same update, in the job
\* processor and in the bulk alt-text save.  Every update of a job carries
\* both fields, and in no step does the status of an entity change while its
\* message stays that of the status before.
C17_StatusWithMessage ==
    /\ [](\A j \in JobIds : \A i \in 1..Len(trace[j]) :
            trace[j][i].kind = "publish" =>
                {"status", "statusMessage"} \subseteq DOMAIN trace[j][i].updates)
    /\ [][\A p \in PostIds : posts'[p].status # posts[p].status =>
            posts'[p].statusMessage # posts[p].statusMessage]_vars

\* A bulk save has ended with one success and one failure, after it had put
\* the posts to updating_meta.
C17_Witness ==
    /\ altSave.pc = "idle"
    /\ posts[1].statusMessage = "Alt text updated!"
    /\ posts[1].status = "success"
    /\ posts[2].status = "error"
    /\ posts[2].statusMessage = "Failed to update alt text: " \o Cause("updateMediaAltText")

\* 2^0 + ... + 2^(k-1)
RECURSIVE SumOfPowers(_)
SumOfPowers(k) == IF k = 0 THEN 0 ELSE SumOfPowers(k - 1) + 2^(k - 1)

\* The first n invocations of apiCall have all failed with a rate limit.
FailedRetryably(n) ==
    /\ Len(retrier.attempts) >= n
    /\ \A a \in 1..n :
          ~retrier.attempts[a].ok /\ isRateLimitError(retrier.attempts[a].error)

\* C18: when the call fails retryably k < maxAttempts times and then
\* succeeds, the operation has been invoked exactly k+1 times, the result of
\* the last invocation is returned, and the total wait is
\* initialDelay * (2^0 + ... + 2^(k-1)).
C18_RetryThenSuccess ==
    \A k \in 0..(MaxRetries + 1) :
        (/\ Len(retrier.attempts) = k + 1
         /\ FailedRetryably(k)
         /\ retrier.attempts[k + 1].ok) =>
            /\ k < retrier.retries
            /\ retrier.pc = "returned"
            /\ retrier.invocations = k + 1
            /\ retrier.result = k + 1
            /\ retrier.waited = retrier.initialDelay * SumOfPowers(k)

\* The call has succeeded at its third invocation, after two waits.
C18_Witness ==
    /\ retrier.pc = "returned"
    /\ Len(retrier.attempts) = 3
    /\ retrier.waited = 3 * retrier.initialDelay

\* The step in which an invocation of apiCall fails with a fatal error.
FailsFatally ==
    /\ Len(retrier'.attempts) = Len(retrier.attempts) + 1
    /\ ~retrier'.attempts[Len(retrier'.attempts)].ok
    /\ ~isRateLimitError(retrier'.attempts[Len(retrier'.attempts)].error)

\* C19: a fatal failure on any attempt is thrown again unchanged at once,
\* with no wait and no further invocation; a fatal failure on attempt 1
\* leaves exactly one invocation and no wait.
C19_FatalRethrown ==
    /\ [][FailsFatally =>
            /\ retrier'.pc = "thrown"
            /\ retrier'.thrown = retrier'.attempts[Len(retrier'.attempts)].error
            /\ retrier'.waited = retrier.waited
            /\ retrier'.invocations = retrier.invocations
            /\ retrier'.invocations = Len(retrier'.attempts)]_vars
    /\ [][retrier.pc = "thrown" => retrier' = retrier]_vars
    /\ []((/\ Len(retrier.attempts) = 1
            /\ ~retrier.attempts[1].ok
            /\ ~isRateLimitError(retrier.attempts[1].error)) =>
                /\ retrier.pc = "thrown"
                /\ retrier.invocations = 1
                /\ retrier.waited = 0)

\* A timeout, which is no rate limit, was thrown again at the second attempt,
\* after the one wait of the first.
C19_Witness ==
    /\ retrier.pc = "thrown"
    /\ Len(retrier.attempts) = 2
    /\ retrier.thrown = Error(<<"Request timed out after", "90", "seconds.">>)
    /\ retrier.invocations = 2
    /\ retrier.waited = retrier.initialDelay

\* Message `outer` ends with message `inner`.
EndsWith(outer, inner) ==
    /\ Len(outer) >= Len(inner)
    /\ SubSeq(outer, Len(outer) - Len(inner) + 1, Len(outer)) = inner

\* C20: when the operation fails retryably on every attempt, it is invoked
\* exactly maxAttempts times, and the retrier then throws an error that
\* carries the message of the last cause.
C20_ExhaustedThrowsWrapped ==
    /\ [](FailedRetryably(retrier.retries) /\ retrier.pc # "idle" =>
            /\ Len(retrier.attempts) = retrier.retries
            /\ retrier.invocations = retrier.retries
            /\ retrier.pc \in {"waiting", "thrown"}
            /\ retrier.pc = "thrown" =>
                  /\ ~retrier.thrown.fetchError
                  /\ retrier.thrown # retrier.attempts[retrier.retries].error
                  /\ EndsWith(retrier.thrown.message,
                              retrier.attempts[retrier.retries].error.message))
    /\ [][(FailedRetryably(retrier.retries) /\ retrier.pc = "waiting") =>
            retrier'.pc = "thrown"]_vars

\* Three attempts of three have failed with a rate limit and the wrapped
\* error is thrown.
C20_Witness ==
    /\ retrier.pc = "thrown"
    /\ retrier.retries = MaxRetries
    /\ FailedRetryably(MaxRetries)
    /\ retrier.invocations = MaxRetries
    /\ retrier.thrown.message[1] = "AI request failed after"

\* The step in which an invocation of apiCall fails.
AttemptFails ==
    /\ Len(retrier'.attempts) = Len(retrier.attempts) + 1
    /\ ~retrier'.attempts[Len(retrier'.attempts)].ok

\* The error of the attempt that has just failed.
FailedWith == retrier'.attempts[Len(retrier'.attempts)].error

\* A rate-limit signal: HTTP status 429 or a RESOURCE_EXHAUSTED condition.
IsRateLimitSignal(error) ==
    \/ error.fetchError /\ error.status = 429
    \/ Includes(error.message, "RESOURCE_EXHAUSTED")

\* The error fetchWithTimeout throws when its timeout elapses.
IsTimeout(error) == Includes(error.message, "Request timed out after")

\* C21: a failure is retryable if it is a rate-limit signal or a request
\* timeout, and every other failure is fatal: the retrier goes on to wait
\* and re-attempt after a failed attempt exactly in those two cases.
C21_RetryableClassification ==
    [][AttemptFails =>
          (retrier'.pc = "waiting" <=>
              (IsRateLimitSignal(FailedWith) \/ IsTimeout(FailedWith)))]_vars

\* ceil(n / b)
CeilDiv(n, b) == (n + b - 1) \div b

RECURSIVE Flatten(_)
Flatten(seqs) == IF seqs = <<>> THEN <<>> ELSE Head(seqs) \o Flatten(Tail(seqs))

IsOperation(e) == e = "operation"
IsDelay(e) == e = "delay"

\* C22: when the call returns (no batch has failed), the per-batch operation
\* was invoked exactly ceil(n / BATCH_SIZE) times, on consecutive chunks of
\* the input in order, each of BATCH_SIZE posts except possibly the last,
\* and the last onProgress call reported (n, n).
C22_ChunksCoverInput ==
    batcher.pc = "returned" =>
        LET n == Len(batcher.posts)
            m == Len(batcher.chunks)
        IN  /\ m = CeilDiv(n, BATCH_SIZE)
            /\ Len(SelectSeq(batcher.events, IsOperation)) = m
            /\ Flatten(batcher.chunks) = batcher.posts
            /\ \A c \in 1..(m - 1) : Len(batcher.chunks[c]) = BATCH_SIZE
            /\ m > 0 => /\ Len(batcher.chunks[m]) >= 1
                        /\ Len(batcher.chunks[m]) <= BATCH_SIZE
            /\ batcher.progress[Len(batcher.progress)] = <<n, n>>

\* A call on 41 posts has returned after three chunks, the last of one post.
C22_Witness ==
    /\ batcher.pc = "returned"
    /\ Len(batcher.posts) = 2 * BATCH_SIZE + 1
    /\ Len(batcher.chunks) = 3
    /\ batcher.chunks[3] = <<2 * BATCH_SIZE + 1>>
    /\ Len(batcher.progress) = 4

\* C23: the inter-batch delay happens exactly between two consecutive
\* chunks: operations and delays alternate, starting with an operation; a
\* delay is always followed by the next chunk's operation, never by the end
\* of the call; and a call that returns for n > 0 has made exactly
\* ceil(n / BATCH_SIZE) - 1 delays.
C23_DelayBetweenChunks ==
    /\ [](/\ \A k \in 1..Len(batcher.events) :
                batcher.events[k] = (IF k % 2 = 1 THEN "operation" ELSE "delay")
          /\ batcher.pc \in {"returned", "thrown", "calling"} =>
                (batcher.events = <<>>
                    \/ batcher.events[Len(batcher.events)] = "operation")
          /\ (batcher.pc = "returned" /\ Len(batcher.posts) > 0) =>
                Len(SelectSeq(batcher.events, IsDelay)) =
                    CeilDiv(Len(batcher.posts), BATCH_SIZE) - 1)
    /\ [][(batcher.pc = "delaying" /\ batcher' # batcher) =>
            /\ batcher'.pc = "calling"
            /\ Len(batcher'.chunks) = Len(batcher.chunks) + 1]_vars

\* A call on more than two batches of posts has returned after two delays.
C23_Witness ==
    /\ batcher.pc = "returned"
    /\ batcher.events = <<"operation", "delay", "operation", "delay", "operation">>

\* C24: when the operation of a chunk fails unrecoverably (the retrier throws
\* a fatal failure or gives up, or the response has no JSON or JSON that does
\* not parse), the whole call throws: no later chunk is processed and no
\* result collection, partial or not, is returned.
C24_ChunkFailureAborts ==
    /\ [][(batcher.pc = "calling" /\ retrier.pc = "thrown"
                /\ batcher' # batcher) =>
            /\ batcher'.pc = "thrown"
            /\ batcher'.thrown = retrier.thrown
            /\ batcher'.chunks = batcher.chunks]_vars
    /\ [](\A c \in 1..Len(batcher.responses) :
            batcher.responses[c] # "json" =>
                /\ batcher.pc = "thrown"
                /\ c = Len(batcher.chunks)
                /\ batcher.thrown # NoError)
    /\ [](batcher.pc = "thrown" => batcher.returned = <<>>)
    /\ [][batcher.pc = "thrown" => batcher' = batcher]_vars

\* The second of three chunks has failed after the retrier gave up: the
\* results of the first chunk are lost with the call.
C24_Witness ==
    /\ batcher.pc = "thrown"
    /\ Len(batcher.posts) = 2 * BATCH_SIZE + 1
    /\ Len(batcher.chunks) = 2
    /\ Len(batcher.allResults) = BATCH_SIZE
    /\ batcher.returned = <<>>
    /\ batcher.thrown.message[1] = "AI request failed after"

\* The heuristic was called.
HeuristicCalled == pure.fn = "insertPlaceholderHeuristically"

IsParagraph(tag) == tag \in {"p", "p short"}
IsPlaceholder(tag) == tag = Placeholder

\* The number of paragraph blocks of a content.
NumBlocks(content) == Len(SelectSeq(content, IsParagraph))

\* The position in `content` of its paragraph with 0-based index `index`.
BlockPosition(content, index) ==
    CHOOSE k \in 1..Len(content) :
        IsParagraph(content[k]) /\ NumBlocks(SubSeq(content, 1, k)) = index + 1

\* `result` is `content` with one placeholder right after the paragraph with
\* 0-based index `index`.
PlacedAfter(content, index, result) ==
    /\ index >= 0 /\ index < NumBlocks(content)
    /\ LET k == BlockPosition(content, index)
       IN  /\ Len(result) = Len(content) + 1
           /\ SubSeq(result, 1, k) = SubSeq(content, 1, k)
           /\ result[k + 1] = Placeholder
           /\ SubSeq(result, k + 2, Len(result)) = SubSeq(content, k + 1, Len(content))

\* `result` is `content` with one placeholder before everything.
Prepended(content, result) == result = <<Placeholder>> \o content

\* C25: for a content with n paragraph blocks the placeholder is prepended
\* when n = 0, put after block 0 when n = 1 or n = 2, and after block 1 when
\* n >= 3; the block chosen is always a block of the content and the result
\* has exactly one placeholder.
C25_HeuristicPlacement ==
    HeuristicCalled =>
        LET n == NumBlocks(pure.arg)
        IN  /\ n = 0 => Prepended(pure.arg, pure.result)
            /\ n \in {1, 2} => PlacedAfter(pure.arg, 0, pure.result)
            /\ n >= 3 => PlacedAfter(pure.arg, 1, pure.result)
            /\ Len(SelectSeq(pure.result, IsPlaceholder)) = 1
            /\ SelectSeq(pure.result, IsParagraph) = SelectSeq(pure.arg, IsParagraph)

\* The placeholder was put after the second of four paragraphs, which is not
\* the second element of the content.
C25_Witness ==
    /\ HeuristicCalled
    /\ pure.arg = <<"div", "p", "p", "div", "p", "p">>
    /\ pure.result = <<"div", "p", "p", Placeholder, "div", "p", "p">>

\* C26 as stated: more than 2 blocks select index 1; else more than 1 block
\* selects index 0; else, with 0 or 1 block, the placeholder is prepended.
C26_FixedRuleAsStated ==
    HeuristicCalled =>
        LET n == NumBlocks(pure.arg)
        IN  IF n > 2 THEN PlacedAfter(pure.arg, 1, pure.result)
            ELSE IF n > 1 THEN PlacedAfter(pure.arg, 0, pure.result)
            ELSE Prepended(pure.arg, pure.result)

\* C26, amended: more than 2 blocks select index 1; else more than 1 block
\* selects index 0; else a single block is itself selected (the placeholder
\* goes after the last block there is); only with no block at all is the
\* placeholder prepended.
C26_FixedRule ==
    HeuristicCalled =>
        LET n == NumBlocks(pure.arg)
        IN  IF n > 2 THEN PlacedAfter(pure.arg, 1, pure.result)
            ELSE IF n > 1 THEN PlacedAfter(pure.arg, 0, pure.result)
            ELSE IF n > 0 THEN PlacedAfter(pure.arg, n - 1, pure.result)
            ELSE Prepended(pure.arg, pure.result)

\* A content with one paragraph got the placeholder after that paragraph,
\* not at its front.
C26_Witness ==
    /\ HeuristicCalled
    /\ pure.arg = <<"div", "p short", "div">>
    /\ pure.result = <<"div", "p short", Placeholder, "div">>

\* C27: a placement failure never becomes a job failure: whenever the
\* AI-assisted placement call fails (a fatal error, the retries exhausted, a
\* timeout, a response that cannot be read), getContentWithImagePlaceholder
\* does not throw but returns the heuristic placement of the content.
C27_PlacementNeverThrows ==
    /\ placer.pc # "thrown"
    /\ placer.pc \in {"calling", "returned"} /\ retrier.pc = "thrown" =>
          /\ Len(retrier.attempts) > 0
          /\ ~retrier.attempts[Len(retrier.attempts)].ok
    /\ placer.pc = "returned" /\ (retrier.pc = "thrown" \/ placer.caught # NoError) =>
          /\ placer.via = "heuristic"
          /\ Len(placer.result) = Len(placer.content) + 1
          /\ \E k \in 1..Len(placer.result) :
                /\ placer.result[k] = Placeholder
                /\ placer.content = SubSeq(placer.result, 1, k - 1)
                                        \o SubSeq(placer.result, k + 1, Len(placer.result))
                /\ k > 1 /\ IsParagraph(placer.result[k - 1])
                /\ NumBlocks(SubSeq(placer.result, 1, k)) = 2

\* The call was rate limited twice, the retrier gave up, and the content, of
\* four long paragraphs, came back with the placeholder after the second.
C27_Witness ==
    /\ placer.pc = "returned"
    /\ retrier.pc = "thrown"
    /\ Len(retrier.attempts) = 2
    /\ placer.caught = retrier.thrown
    /\ placer.content = <<"p", "p", "p", "p">>
    /\ placer.result = <<"p", "p", Placeholder, "p", "p">>

\* The message has the word, as written.
Contains(message, word) == word \in {message[k] : k \in DOMAIN message}

\* The message has the word in some letter case.
ContainsAnyCase(message, spellings) ==
    \E k \in DOMAIN message : message[k] \in spellings

\* The category a translated message stands for: the fixed sentences of the
\* four named categories, anything else is "other".
FriendlyCategories(result, provider) ==
    {c \in {"authentication", "not-found", "rate-limited", "timed-out", "other"} :
        CASE c = "authentication" ->
                 result = <<"Authentication failed for", provider,
                            ". Please check your API Key.">>
          [] c = "not-found" ->
                 result = <<"Model not found for", provider,
                            ". Please check the model name.">>
          [] c = "rate-limited" ->
                 result = <<"API rate limit exceeded for", provider,
                            ". Please wait and try again.">>
          [] c = "timed-out" ->
                 result = <<"The request to", provider,
                            "timed out. The service may be unavailable.">>
          [] OTHER -> Len(result) # 3 \/ result[2] # provider}

\* The category of a message by first match, in the order of the claim.
\* 'api key' and 'authentication' are looked for in any letter case (the
\* code lower-cases the message for these two), the others as written.
FirstMatch(message) ==
    IF \/ Contains(message, "401")
       \/ ContainsAnyCase(message, {"api key", "API Key"})
       \/ ContainsAnyCase(message, {"authentication", "Authentication"})
    THEN "authentication"
    ELSE IF Contains(message, "404") THEN "not-found"
    ELSE IF Contains(message, "429") \/ Contains(message, "RESOURCE_EXHAUSTED")
    THEN "rate-limited"
    ELSE IF Contains(message, "timed out") THEN "timed-out"
    ELSE "other"

\* The message getFriendlyAIError translates: that of an Error, or the fixed
\* one of a value that is no Error.
MessageOf(error) ==
    IF error.instanceofError THEN error.message ELSE <<"An unknown error occurred.">>

\* C28: the friendly-error translation maps every error message to exactly
\* one category, the first that matches in the order authentication ('401',
\* 'api key', 'authentication'), not-found ('404'), rate-limited ('429',
\* 'RESOURCE_EXHAUSTED'), timed-out ('timed out'), other; in the category
\* other the message is returned unchanged.
C28_FriendlyErrorCategories ==
    pure.fn = "getFriendlyAIError" =>
        LET message == MessageOf(pure.arg.error)
            categories == FriendlyCategories(pure.result, pure.arg.provider)
        IN  /\ categories = {FirstMatch(message)}
            /\ FirstMatch(message) = "other" => pure.result = message

\* A message with both '404' and '401', in this order, was translated as an
\* authentication failure.
C28_Witness ==
    /\ pure.fn = "getFriendlyAIError"
    /\ pure.arg.error = [instanceofError |-> TRUE, message |-> <<"404", "401">>]
    /\ pure.result[1] = "Authentication failed for"

\* The positions of the fences of a text, in order.
FencePositions(text) == {k \in 1..Len(text) : text[k] = "<fence>"}

\* The code-fenced blocks of a text: its fences taken in pairs, the first
\* with the second, the third with the fourth, and so on.  A block is given
\* by the positions of its two fences.
FencedBlocks(text) ==
    {b \in FencePositions(text) \X FencePositions(text) :
        /\ b[1] < b[2]
        /\ Cardinality({f \in FencePositions(text) : f < b[1]}) % 2 = 0
        /\ Cardinality({f \in FencePositions(text) : f <= b[2]})
              = Cardinality({f \in FencePositions(text) : f < b[1]}) + 2}

\* The trimmed content of a block: what is between its fences, after the
\* language word json if there is one, from its first piece that is not
\* white space to its last.
BlockContent(text, b) ==
    LET from == IF b[1] + 1 < b[2] /\ text[b[1] + 1] = "json" THEN b[1] + 2 ELSE b[1] + 1
        inked == {k \in from..(b[2] - 1) : text[k] # " "}
    IN  IF inked = {} THEN <<>>
        ELSE SubSeq(text, CHOOSE k \in inked : \A m \in inked : k <= m,
                          CHOOSE k \in inked : \A m \in inked : k >= m)

\* The span from the first '{' or '[' to the last '}' or ']', or null when
\* there is no opening bracket or no closing bracket after it.
BracketSpan(text) ==
    LET opening == {k \in 1..Len(text) : text[k] \in {"{", "["}}
        closing == {k \in 1..Len(text) : text[k] \in {"}", "]"}}
    IN  IF opening = {} \/ \A c \in closing : \E o \in opening : \A o2 \in opening : o <= o2 /\ c < o
        THEN [isNull |-> TRUE, text |-> <<>>]
        ELSE [isNull |-> FALSE,
              text |-> SubSeq(text, CHOOSE o \in opening : \A o2 \in opening : o <= o2,
                                    CHOOSE c \in closing : \A c2 \in closing : c >= c2)]

\* C29 as stated: if the text has a code-fenced block with non-empty
\* content, the result is the trimmed content of the first such block;
\* otherwise it is the span from the first opening to the last closing
\* bracket, or null when there is no such span.
C29_ExtractJsonAsStated ==
    pure.fn = "extractJson" =>
        LET text == pure.arg
            full == {b \in FencedBlocks(text) : BlockContent(text, b) # <<>>}
        IN  IF full # {}
            THEN LET first == CHOOSE b \in full : \A c \in full : b[1] <= c[1]
                 IN  pure.result = [isNull |-> FALSE, text |-> BlockContent(text, first)]
            ELSE pure.result = BracketSpan(text)

\* C29, amended: if the first code-fenced block of the text has non-empty
\* content, the result is the trimmed content of that block; otherwise, also
\* when a later block has content, the result is the substring from the
\* first '{' or '[' to the last '}' or ']' inclusive, and it is null exactly
\* when there is no opening bracket or the last closing bracket lies before
\* the first opening bracket (or there is none).
C29_ExtractJson ==
    pure.fn = "extractJson" =>
        LET text == pure.arg
            blocks == FencedBlocks(text)
            first == CHOOSE b \in blocks : \A c \in blocks : b[1] <= c[1]
        IN  IF blocks # {} /\ BlockContent(text, first) # <<>>
            THEN pure.result = [isNull |-> FALSE, text |-> BlockContent(text, first)]
            ELSE pure.result = BracketSpan(text)

\* The first block of the text is empty and the second is not: the result
\* is the bracket span of the whole text, which has a fence inside.
C29_Witness ==
    /\ pure.fn = "extractJson"
    /\ pure.arg = <<"<fence>", "<fence>", "[", "<fence>", "]">>
    /\ pure.result = [isNull |-> FALSE, text |-> <<"[", "<fence>", "]">>]

\* The executions of processJob that have started and await a remote call.
Executing == {j \in JobIds : exec[j].pc \in RemoteCalls}

\* C30: the number of job executions in flight (started and not yet
\* completed) never exceeds MAX_CONCURRENT_JOBS, also after a clear while
\* jobs were running and an enqueue afterwards.
C30_InFlightAtMostMax == Cardinality(Executing) <= MAX_CONCURRENT_JOBS

C32_WaitsOnlyBeforeAttempt ==
    /\ retrier.pc = "waiting" => Len(retrier.attempts) < retrier.retries
    /\ (retrier.pc = "thrown" /\ FailedRetryably(retrier.retries)) =>
          retrier.waited = retrier.initialDelay * SumOfPowers(retrier.retries - 1)

\* The AI has replied and its reply is invalid: it has no number, or its
\* number is not one of 1..number of paragraphs.
InvalidReply(responseText, content) ==
    \/ responseText.kind = "no digits"
    \/ /\ responseText.kind = "digits"
       /\ responseText.n \notin 1..NumBlocks(content)

\* C33: in AI-assisted placement, when the reply of the AI is invalid (no
\* number, or a paragraph number outside 1..number of paragraphs), the
\* placeholder is inserted after the 1st paragraph.
C33_InvalidReplyAfterFirst ==
    [][\A responseText \in ResponseTexts :
          (/\ placer.pc = "calling" /\ retrier.pc = "returned"
           /\ InvalidReply(responseText, placer.content)
           /\ placer' = PlacementResponse(placer, responseText)) =>
              PlacedAfter(placer.content, 0, placer'.result)]_vars

\* The content is too short for the AI: fewer than 3 paragraphs, or fewer
\* than 2 of its first 5 paragraphs with more than 80 characters of text.
TooShort(content) ==
    \/ NumBlocks(content) < 3
    \/ Cardinality({k \in 1..Len(content) :
            /\ content[k] = "p"
            /\ NumBlocks(SubSeq(content, 1, k)) <= 5}) < 2

\* C34: AI-assisted placement is skipped without any remote call, and the
\* heuristic is used, when the content has fewer than 3 paragraphs or when
\* fewer than 2 of its first 5 paragraphs have more than 80 characters.
C34_ShortContentSkipsAI ==
    (placer.pc # "idle" /\ TooShort(placer.content)) =>
        /\ placer.pc = "returned"
        /\ retrier.pc = "idle" /\ retrier.invocations = 0
        /\ LET n == NumBlocks(placer.content)
           IN  /\ n = 0 => Prepended(placer.content, placer.result)
               /\ n \in {1, 2} => PlacedAfter(placer.content, 0, placer.result)
               /\ n >= 3 => PlacedAfter(placer.content, 1, placer.result)

\* Six paragraphs of which only the sixth and one of the first five are
\* long: no call was made and the placeholder is after the second.
C34_Witness ==
    /\ placer.pc = "returned"
    /\ retrier.invocations = 0
    /\ placer.content = <<"p short", "p", "p short", "p short", "p short", "p">>
    /\ placer.result = <<"p short", "p", Placeholder, "p short", "p short", "p short", "p">>

\* The result is the content with one placeholder put in.
OnePlaceholderAdded(content, result) ==
    \E k \in 1..Len(result) :
        /\ result[k] = Placeholder
        /\ content = SubSeq(result, 1, k - 1) \o SubSeq(result, k + 1, Len(result))

\* C35: for every content and every AI reply (valid, invalid or failed),
\* getContentWithImagePlaceholder returns the original content with exactly
\* one placeholder inserted; on the AI path the placeholder follows a
\* paragraph of the content, one with an index in 0..number of paragraphs-1.
C35_OnePlaceholderInRange ==
    /\ placer.pc \in {"idle", "calling", "returned"}
    /\ placer.pc = "returned" =>
          /\ OnePlaceholderAdded(placer.content, placer.result)
          /\ Len(SelectSeq(placer.result, IsPlaceholder)) = 1
          /\ placer.via = "ai" =>
                \E index \in 0..(NumBlocks(placer.content) - 1) :
                    PlacedAfter(placer.content, index, placer.result)

\* The AI chose the last of five paragraphs.
C35_Witness ==
    /\ placer.pc = "returned" /\ placer.via = "ai"
    /\ placer.content = <<"p", "p", "div", "p short", "p", "p">>
    /\ placer.result = <<"p", "p", "div", "p short", "p", "p", Placeholder>>

\* The condition of the auto-close effect of the progress modal.
AutoCloseCondition ==
    isProgressModalOpen /\ batchPostIds = {} /\ totalModalJobs > 0

\* C36: the progress modal closes by itself only when all jobs have
\* finished: whenever the auto-close condition holds, no job is pending and
\* no job execution is in flight, also when several jobs target one entity.
C36_AutoCloseWhenAllFinished ==
    AutoCloseCondition =>
        Len(jobQueue) = 0 /\ \A j \in JobIds : ~Pending(j) /\ ~InFlight(j)

\* What a post holds besides its status and message.
DataOf(post) ==
    [content |-> post.content, imageCount |-> post.imageCount,
     featured_media |-> post.featured_media, generatedImage |-> post.generatedImage]

\* Job j has ended in error.
EndedInError(j) ==
    /\ exec[j].pc = "settled"
    /\ LastEvent(j).kind = "publish" /\ LastEvent(j).what = "error"

\* C37: no rollback and no partial write on failure: a job that ends in
\* error has changed only the status and statusMessage of its entity.  None
\* of its updates names another field, and the content, imageCount,
\* featured_media and generatedImage of an entity change only in a step in
\* which a job on that entity publishes success.
C37_FailureWritesStatusOnly ==
    /\ [](\A j \in JobIds : EndedInError(j) =>
            \A i \in 1..Len(trace[j]) :
                trace[j][i].kind = "publish" =>
                    DOMAIN trace[j][i].updates = {"status", "statusMessage"})
    /\ [][\A p \in PostIds : DataOf(posts'[p]) # DataOf(posts[p]) =>
              \E j \in JobIds :
                  /\ Acted(j) /\ jobs'[j].post = p
                  /\ LastEvent(j)'.kind = "publish"
                  /\ LastEvent(j)'.what = "success"]_vars

\* A generate job has failed at its third call, the upload: the post shows
\* the error and holds no image, no content and no count.
C37_Witness ==
    \E j \in JobIds :
        /\ jobs[j].action = "generate"
        /\ EndedInError(j)
        /\ Len(trace[j]) = 8
        /\ trace[j][6] = Event("call", "uploadImage", "uploading")
        /\ DataOf(posts[jobs[j].post]) = DataOf(InitialPost)

\* C38: every job execution ends with its entity in a terminal status: when
\* processJob has returned, the last thing the job did is an update that sets
\* status to success or to error, and the entity showed that status right
\* after it.
C38_EndsInTerminalStatus ==
    \A j \in JobIds : exec[j].pc = "settled" =>
        /\ Len(trace[j]) > 0
        /\ LastEvent(j).kind = "publish"
        /\ LastEvent(j).what \in {"success", "error"}
        /\ LastEvent(j).shown = LastEvent(j).what

\* A set_featured job has ended in success after its call, on a post that
\* had a generated image.
C38_Witness ==
    \E j \in JobIds :
        /\ jobs[j].action = "set_featured"
        /\ exec[j].pc = "settled"
        /\ Len(trace[j]) = 3
        /\ LastEvent(j).what = "success"
        /\ posts[jobs[j].post].featured_media # 0

\* The step in which handleSaveAltText finishes (its last updater runs).
SaveFinishes == altSave.pc = "saving" /\ altSave'.pc = "idle"

\* Post p is one of those the save is about: its generated image's media id
\* is among the updates.
InSave(p) ==
    /\ posts[p].generatedImage.mediaId # 0
    /\ posts[p].generatedImage.mediaId \in altSave.mediaIds

\* C39: when handleSaveAltText finishes, every entity whose generated
\* image's media id is among the updates has status success, with the new
\* alt text, or error, with its image as it was; each media id has its own
\* outcome, whatever the others'; and no entity shows updating_meta once the
\* save is over.
C39_AltSaveOutcomes ==
    /\ [](altSave.pc = "idle" => \A p \in PostIds : posts[p].status # "updating_meta")
    /\ [][SaveFinishes =>
            \E results \in [altSave.mediaIds -> BOOLEAN] :
                \A p \in PostIds :
                    IF InSave(p)
                    THEN IF results[posts[p].generatedImage.mediaId]
                         THEN /\ posts'[p].status = "success"
                              /\ posts'[p].generatedImage =
                                    [posts[p].generatedImage EXCEPT !.alt = "result.altText"]
                         ELSE /\ posts'[p].status = "error"
                              /\ posts'[p].generatedImage = posts[p].generatedImage
                    ELSE posts'[p] = posts[p]]_vars

\* A save of two media ids is over: the first failed and its post shows the
\* error with the alt text it had, the second succeeded and has the new one.
C39_Witness ==
    /\ altSave.pc = "idle"
    /\ posts[1].status = "error"
    /\ posts[1].generatedImage.mediaId # 0
    /\ posts[1].generatedImage.alt # "result.altText"
    /\ posts[2].status = "success"
    /\ posts[2].generatedImage.alt = "result.altText"

\* The processJob executions of the state-based variant in flight.
StateInFlight ==
    LET Sum[p \in 0..NumStatePosts] ==
            IF p = 0 THEN 0 ELSE Sum[p - 1] + stateScheduler.running[p]
    IN  Sum[NumStatePosts]

\* C40: in the state-based scheduler variant, while the list was never
\* cleared, the number of job executions in flight never exceeds its
\* MAX_CONCURRENT_JOBS (20), also when several enqueued jobs target the same
\* post.
C40_StateInFlightAtMostMax ==
    ~stateScheduler.cleared => StateInFlight <= STATE_MAX_CONCURRENT_JOBS

====
